---- MODULE Spec2Model ----
(***************************************************************************)
(* Provenance-gated scrape ingestion of matterbot: scrape_brand creates a  *)
(* scrape session, save_brand_to_notion resolves a record from the session *)
(* and the per-URL extract caches, validates it, persists it to Notion and *)
(* snapshots the Matterbase create payload.                                *)
(*                                                                         *)
(* Representation.  A string is a sequence of one-character strings.  An   *)
(* absent property, null and the empty string are all written <<>>: every  *)
(* test the modelled code applies to such a value (!v, v == null || v ===  *)
(* "", toNonEmptyString) treats the three alike.  A JavaScript Map is a    *)
(* sequence of its entries in insertion order, which is the order the code *)
(* iterates and (stably) sorts them in.  The clock counts hours.           *)
(***************************************************************************)
EXTENDS Integers, Sequences, FiniteSets, TLC

EMPTY == <<>>

\* ------------------------------------------------------------------ bounds

\* Scrape sessions ever created (randomUUID is modelled as a fresh counter).
MaxScrapes == 2
\* save_brand_to_notion calls ever started.
MaxSaves == 1
\* Enrichment fields one save request leaves out.
MaxOmitted == 1
\* Last hour of the clock.
MaxTime == 3

\* -------------------------------------------------------- program constants

\* 60 minutes, in hours.
BRAND_SCRAPE_SESSION_TTL_MS == 1
\* 300 in the source; scaled so that capacity eviction happens within MaxScrapes.
BRAND_SCRAPE_SESSION_MAX_ENTRIES == 1
\* 6 hours in the source; scaled to 2 clock units, keeping it above the session TTL.
MATTERBASE_CREATE_PAYLOAD_TTL_MS == 2
\* 500 in the source; scaled so that one stored payload fills the cache.
MATTERBASE_CREATE_PAYLOAD_MAX_ENTRIES == 1

\* The list without its first name.
DisallowedExceptWebsite ==
    { "logoUrl", "architonicId", "companyType", "street", "city",
      "postalCode", "phone", "email", "latitude", "longitude", "facebook",
      "instagram", "pinterest", "description", "catalogs", "distributors",
      "headerImageUrl", "aboutImageUrl", "stories", "similarBrands",
      "hunterContactsSource" }

DISALLOWED_SCRAPED_FIELDS ==
    { "website", "logoUrl", "architonicId", "companyType", "street", "city",
      "postalCode", "phone", "email", "latitude", "longitude", "facebook",
      "instagram", "pinterest", "description", "catalogs", "distributors",
      "headerImageUrl", "aboutImageUrl", "stories", "similarBrands",
      "collections" }

\* Only the country name can be supplied later.
RetryableCountryNameOnly == { "countryName" }

RETRYABLE_MATTERBASE_CREATE_FIELDS ==
    { "productType", "countryCode", "countryName", "contactEmail" }

ValidProductTypes == { "material", "furniture", "lighting", "hardware" }

\* ------------------------------------------------------------------ strings

RECURSIVE TrimLeft(_)
TrimLeft(s) ==
    IF s # <<>> /\ Head(s) = " " THEN TrimLeft(Tail(s)) ELSE s

RECURSIVE TrimRight(_)
TrimRight(s) ==
    IF s # <<>> /\ s[Len(s)] = " " THEN TrimRight(SubSeq(s, 1, Len(s) - 1)) ELSE s

\* String.prototype.trim
Trim(s) == TrimRight(TrimLeft(s))

\* String.prototype.indexOf for a one-character needle: 0-based, -1 when absent.
IndexOf(s, c) ==
    IF \E i \in 1..Len(s) : s[i] = c
    THEN (CHOOSE i \in 1..Len(s) : s[i] = c /\ \A j \in 1..(i - 1) : s[j] # c) - 1
    ELSE -1

\* String.prototype.slice(from), 0-based.
SliceFrom(s, from) == SubSeq(s, from + 1, Len(s))

toNonEmptyString(value) == Trim(value)

RECURSIVE firstNonEmptyString(_)
firstNonEmptyString(values) ==
    IF values = <<>> THEN EMPTY
    ELSE IF toNonEmptyString(Head(values)) # EMPTY
         THEN toNonEmptyString(Head(values))
         ELSE firstNonEmptyString(Tail(values))

isPlausibleEmail(value) ==
    LET trimmed == Trim(value)
        atIdx   == IndexOf(trimmed, "@")
        domain  == SliceFrom(trimmed, atIdx + 1)
    IN  /\ trimmed # <<>>
        /\ atIdx >= 1
        /\ IndexOf(domain, ".") # -1
        /\ IndexOf(domain, ".") < Len(domain) - 1

\* A URL is the sequence of its path segments; the Architonic id is the last
\* segment when it is all digits (/\/(\d+)(?:\/?(?:\?.*)?)?$/).
DigitSegments == { "1", "2" }
parseArchitonicId(url) ==
    IF url # <<>> /\ url[Len(url)] \in DigitSegments THEN url[Len(url)] ELSE ""


\* ------------------------------------------------------------- sample data

Url1 == << "b", "acme", "1" >>
Url2 == << "b", "zeta", "2" >>
URLs == { Url1, Url2 }

EmailPlausible == << "a", "@", "b", ".", "c" >>
\* Passes the loose key scan's /@/ test, fails isPlausibleEmail.
EmailLoose     == << "a", "@", "b" >>
Website        == << "w", ".", "c" >>
\* The page of url names its own logo, distributor and catalogue: each carries
\* the brand's Architonic ID.
Logo(url)         == << "l", url[3] >>
Dist1(url)        ==
    [ name |-> << "d", url[3] >>, street |-> EMPTY, city |-> EMPTY, zip |-> EMPTY,
      phone |-> EMPTY, email |-> EMPTY, website |-> EMPTY ]
CatalogLink1(url) == [ url |-> << "c", url[3] >>, filename |-> << "c" >> ]

ContactKeys ==
    { "phone", "email", "street", "city", "zip", "lat", "lng", "website",
      "facebook", "instagram", "pinterest", "contactEmail" }

NoContact == [ k \in ContactKeys |-> EMPTY ]

NoImages == [ logoUrl |-> EMPTY, headerImageUrl |-> EMPTY, aboutImageUrl |-> EMPTY ]

\* What one fetch of a brand page yields after extraction (executeScrapeBrand's
\* contactDetails, parsedDistributors, parsedCatalogLinks, extractedImageUrls).
Extraction(url, email, website, rich) ==
    [ contactDetails     |-> [ NoContact EXCEPT !["email"] = email, !["website"] = website ],
      parsedDistributors |-> IF rich THEN << Dist1(url) >> ELSE << >>,
      parsedCatalogLinks |-> IF rich THEN << CatalogLink1(url) >> ELSE << >>,
      extractedImageUrls |-> IF rich THEN [ NoImages EXCEPT !.logoUrl = Logo(url) ]
                             ELSE NoImages,
      markdown           |-> EMPTY,
      links              |-> IF rich THEN << CatalogLink1(url).url >> ELSE << >>,
      metadata           |-> [ ogImage |-> EMPTY ] ]

\* What a scrape of url can extract: a complete page with and without
\* distributors, catalog links and images; a page whose only email is one the
\* loose scan accepts; a page without email; a page without website.
Extractions(url) ==
    { Extraction(url, EmailPlausible, Website, TRUE),
      Extraction(url, EmailPlausible, Website, FALSE),
      Extraction(url, EmailLoose, Website, FALSE),
      Extraction(url, EMPTY, Website, FALSE),
      Extraction(url, EmailPlausible, EMPTY, FALSE) }

\* -------------------------------------------------------------------- state

VARIABLES
    now,                          \* Date.now(), in hours
    brandScrapeSessionCache,      \* Map scrapeSessionId -> snapshot
    nextSessionId,                \* the next randomUUID
    distributorCache,             \* Map url -> ParsedDistributor[]
    catalogLinkCache,             \* Map url -> ParsedCatalogLink[]
    imageUrlCache,                \* Map url -> ExtractedImageUrls
    matterbaseCreatePayloadCache, \* Map notionPageId -> payload
    notionPages,                  \* Brands database: page id -> page
    brandIndex,                   \* brand index database: its pages, oldest first
    save,                         \* the save_brand_to_notion call in flight
    savesStarted,
    productScrapeSessionCache,    \* Map scrapeSessionId -> product snapshot
    storeCall,                    \* the last direct call of a session store
    heap,                         \* the objects that arrays of a snapshot refer to
    callerInput,                  \* the input object a caller of create still holds
    callerSnapshot,               \* the snapshot a caller of get holds
    created,                      \* scrapeSessionId -> the session as created
    mbCreate,                     \* the matterbase_create_brand call in flight
    createCallsStarted,
    matterbaseCalls,              \* the tool calls sent to the Matterbase client
    matterbaseIdUpdates,          \* the Matterbase IDs written to Brands pages
    validateCall,                 \* the validate_brand_data call and its result
    indexCall,                    \* the update_brand_index_status call in flight
    indexCallsStarted,
    addCall,                      \* caller -> its add_brands_to_index call
    addCallsStarted,
    statusState,                  \* the StatusState of one conversation
    statusNow,                    \* Date.now(), in milliseconds
    handler,                      \* caller -> its handleToolUse/handleThinking call
    handlerCallsStarted,
    cleanup,                      \* the cleanupStatusMessage call
    timerEdits,                   \* the edits of the debounce callback in flight
    sentMessages,                 \* the status messages the channel has sent
    deleteRequests,               \* message id -> outcome of its delete request
    editCalls                     \* the editMessage calls issued, oldest first

\* The objects a caller of the session store shares with it.
aliasVars == << heap, callerInput, callerSnapshot, created >>

\* The state that only direct calls of the session stores touch.
\* The state of the downstream creation step.
downstreamVars == << mbCreate, createCallsStarted, matterbaseCalls, matterbaseIdUpdates >>

\* The state of the brand index tools.
indexVars == << indexCall, indexCallsStarted >>

addVars == << addCall, addCallsStarted >>

\* The state of the tools that are not part of a save.
\* The state of the status message module and of its channel.
statusVars ==
    << statusState, statusNow, handler, handlerCallsStarted, cleanup, timerEdits,
       sentMessages, deleteRequests, editCalls >>

\* The state of the tools that are not part of a save.
toolVars == << indexVars, addVars, statusVars >>

aux ==
    << productScrapeSessionCache, storeCall, aliasVars, downstreamVars, validateCall,
       toolVars >>

vars ==
    << now, brandScrapeSessionCache, nextSessionId, distributorCache,
       catalogLinkCache, imageUrlCache, matterbaseCreatePayloadCache,
       notionPages, brandIndex, save, savesStarted, aux >>

\* ------------------------------------------------------- per-URL extract caches

getCachedDistributors(url) == distributorCache[url]

\* The links cached for the other brand page.
CachedCatalogLinksOfOtherUrl(url) == catalogLinkCache[CHOOSE u \in URLs : u # url]

getCachedCatalogLinks(url) == catalogLinkCache[url]

getCachedImageUrls(url) == imageUrlCache[url]

\* ------------------------------------------------------------ session store

\* The stable ascending sort of a Map's entries by their timestamps: entry i's place.
SortRank(timestamps, i) ==
    Cardinality({ j \in 1..Len(timestamps) :
        \/ timestamps[j] < timestamps[i]
        \/ timestamps[j] = timestamps[i] /\ j < i })

CreatedAtOf(entries) == [ j \in 1..Len(entries) |-> entries[j].createdAt ]

\* A prune that drops the expired entries and never evicts.
PruneExpiredOnly(cache, t) ==
    SelectSeq(cache, LAMBDA s : ~(t - s.createdAt > BRAND_SCRAPE_SESSION_TTL_MS))

pruneBrandScrapeSessionCache(cache, t) ==
    LET live == SelectSeq(cache,
                    LAMBDA s : ~(t - s.createdAt > BRAND_SCRAPE_SESSION_TTL_MS))
        removeCount == Len(live) - BRAND_SCRAPE_SESSION_MAX_ENTRIES
        keep == { i \in 1..Len(live) : SortRank(CreatedAtOf(live), i) >= removeCount }
        KeepSeq[i \in 0..Len(live)] ==
            IF i = 0 THEN << >>
            ELSE IF i \in keep THEN Append(KeepSeq[i - 1], live[i]) ELSE KeepSeq[i - 1]
    IN  IF Len(live) <= BRAND_SCRAPE_SESSION_MAX_ENTRIES THEN live
        ELSE KeepSeq[Len(live)]

\* A session stored without the page's links.
SessionStoredWithoutLinks(cache, id, url, extraction, t) ==
    pruneBrandScrapeSessionCache(
        Append(pruneBrandScrapeSessionCache(cache, t),
               [ scrapeSessionId    |-> id,
                 createdAt          |-> t,
                 architonicUrl      |-> url,
                 contactDetails     |-> extraction.contactDetails,
                 parsedDistributors |-> extraction.parsedDistributors,
                 parsedCatalogLinks |-> extraction.parsedCatalogLinks,
                 extractedImageUrls |-> extraction.extractedImageUrls,
                 markdown           |-> extraction.markdown,
                 links              |-> << >>,
                 metadata           |-> extraction.metadata ]), t)

\* The cache after createBrandScrapeSession(snapshotInput) at time t with id.
createBrandScrapeSession(cache, id, url, extraction, t) ==
    LET snapshot ==
            [ scrapeSessionId    |-> id,
              createdAt          |-> t,
              architonicUrl      |-> url,
              contactDetails     |-> extraction.contactDetails,
              parsedDistributors |-> extraction.parsedDistributors,
              parsedCatalogLinks |-> extraction.parsedCatalogLinks,
              extractedImageUrls |-> extraction.extractedImageUrls,
              markdown           |-> extraction.markdown,
              links              |-> extraction.links,
              metadata           |-> extraction.metadata ]
    IN  pruneBrandScrapeSessionCache(
            Append(pruneBrandScrapeSessionCache(cache, t), snapshot), t)

NoSnapshot == [ scrapeSessionId |-> 0 ]

\* A lookup that never finds the session.
SessionNeverFound(cache, id, t) == << pruneBrandScrapeSessionCache(cache, t), NoSnapshot >>

\* A lookup that neither prunes nor checks the age of the entry.
SessionFoundWhateverItsAge(cache, id, t) ==
    LET hits == { i \in 1..Len(cache) : cache[i].scrapeSessionId = id }
    IN  IF hits = {} THEN << cache, NoSnapshot >>
        ELSE << cache, cache[CHOOSE i \in hits : TRUE] >>

\* A lookup that returns the newest session of the store whatever id is asked for.
NewestSessionFound(cache, id, t) ==
    LET pruned == pruneBrandScrapeSessionCache(cache, t)
    IN  IF pruned = << >> THEN << pruned, NoSnapshot >>
        ELSE << pruned, pruned[Len(pruned)] >>

\* A lookup that reports an expired session as missing and leaves the store as it is.
ExpiredSessionLeftInStore(cache, id, t) ==
    LET hits == { i \in 1..Len(cache) : cache[i].scrapeSessionId = id }
    IN  IF hits = {} THEN << cache, NoSnapshot >>
        ELSE LET i == CHOOSE i \in hits : TRUE
             IN  IF t - cache[i].createdAt > BRAND_SCRAPE_SESSION_TTL_MS
                 THEN << cache, NoSnapshot >>
                 ELSE << cache, cache[i] >>

\* getBrandScrapeSession: << the cache afterwards, the snapshot or NoSnapshot >>.
getBrandScrapeSession(cache, id, t) ==
    LET pruned == pruneBrandScrapeSessionCache(cache, t)
        hits   == { i \in 1..Len(pruned) : pruned[i].scrapeSessionId = id }
    IN  IF hits = {} THEN << pruned, NoSnapshot >>
        ELSE LET i == CHOOSE i \in hits : TRUE
             IN  IF t - pruned[i].createdAt > BRAND_SCRAPE_SESSION_TTL_MS
                 THEN << SelectSeq(pruned, LAMBDA s : s.scrapeSessionId # id), NoSnapshot >>
                 ELSE << pruned, pruned[i] >>

\* ----------------------------------------------------------------- scraping

\* executeScrapeBrand(url), from the return of the fetch to the end: the extract
\* caches are overwritten only by a non-empty extract, then the session is created.
ScrapeBrand(url, ex) ==
    /\ nextSessionId <= MaxScrapes
    /\ distributorCache' =
         IF Len(ex.parsedDistributors) > 0
         THEN [ distributorCache EXCEPT ![url] = ex.parsedDistributors ]
         ELSE distributorCache
    /\ catalogLinkCache' =
         IF Len(ex.parsedCatalogLinks) > 0
         THEN [ catalogLinkCache EXCEPT ![url] = ex.parsedCatalogLinks ]
         ELSE catalogLinkCache
    /\ imageUrlCache' =
         IF \/ ex.extractedImageUrls.logoUrl # EMPTY
            \/ ex.extractedImageUrls.headerImageUrl # EMPTY
            \/ ex.extractedImageUrls.aboutImageUrl # EMPTY
         THEN [ imageUrlCache EXCEPT ![url] = ex.extractedImageUrls ]
         ELSE imageUrlCache
    /\ brandScrapeSessionCache' =
         createBrandScrapeSession(brandScrapeSessionCache, nextSessionId, url, ex, now)
    /\ nextSessionId' = nextSessionId + 1
    /\ UNCHANGED aux
    /\ UNCHANGED << now, matterbaseCreatePayloadCache, notionPages, brandIndex,
                    save, savesStarted >>


\* --------------------------------------------------------------- validation

\* An issue that is neither an error nor a warning.
InfoIssue(field, severity, kind) == [ field |-> field, severity |-> "info", kind |-> kind ]

Issue(field, severity, kind) == [ field |-> field, severity |-> severity, kind |-> kind ]

\* A contact field that is not compared.
ContactFieldNeverChecked(contactDetails, brandData, sourceKey, targetKey) == << >>

checkContactField(contactDetails, brandData, sourceKey, targetKey) ==
    IF contactDetails[sourceKey] = EMPTY THEN << >>
    ELSE IF brandData[targetKey] = EMPTY
         THEN << Issue(targetKey, "error", "missing") >>
         ELSE << >>

\* The email of the contact details is not compared.
EmailNeverChecked(contactDetails, brandData) == << >>

checkEmailField(contactDetails, brandData) ==
    IF contactDetails["email"] = EMPTY THEN << >>
    ELSE LET hasEmail        == brandData["email"] # EMPTY
             hasContactEmail == brandData["contactEmail"] # EMPTY
         IN  IF ~hasEmail /\ ~hasContactEmail
             THEN << Issue("email", "error", "missing") >>
             ELSE << >>

\* metadata.ogImage and the markdown are sequences of tokens: an image URL's path
\* segments with "?" opening the query string; the markdown's lines, of which
\* "#about" is an About/Philosophy/Company heading and "catalog" a mention.
checkHeaderImageFallback(metadata, brandData) ==
    IF metadata.ogImage = EMPTY THEN << >>
    ELSE IF brandData["headerImageUrl"] # EMPTY THEN << >>
         ELSE << Issue("headerImageUrl", "warning", "fallback") >>

\* An image URL that is checked for presence and not compared.
ImageCheckedForPresenceOnly(extracted, proposed, field, severity) ==
    IF extracted = EMPTY THEN << >>
    ELSE IF proposed = EMPTY THEN << Issue(field, severity, "missing") >> ELSE << >>

checkOneImageUrl(extracted, proposed, field, severity) ==
    IF extracted = EMPTY THEN << >>
    ELSE IF proposed = EMPTY THEN << Issue(field, severity, "missing") >>
         ELSE IF proposed # extracted THEN << Issue(field, severity, "mismatch") >>
              ELSE << >>

checkImageUrls(extractedImageUrls, brandData) ==
       checkOneImageUrl(extractedImageUrls.logoUrl, brandData["logoUrl"], "logoUrl", "error")
    \o checkOneImageUrl(extractedImageUrls.headerImageUrl, brandData["headerImageUrl"],
                        "headerImageUrl", "warning")
    \o checkOneImageUrl(extractedImageUrls.aboutImageUrl, brandData["aboutImageUrl"],
                        "aboutImageUrl", "warning")

LowerChar(c) == IF c = "D" THEN "d" ELSE IF c = "E" THEN "e" ELSE c
\* name.toLowerCase().trim()
NormalizedName(name) == Trim([ i \in 1..Len(name) |-> LowerChar(name[i]) ])

DistributorFieldKeys == << "street", "city", "zip", "phone", "email", "website" >>

\* The issues of one matched distributor, field by field.
RECURSIVE DistributorFieldIssues(_, _, _)
DistributorFieldIssues(parsed, match, keys) ==
    IF keys = << >> THEN << >>
    ELSE (IF parsed[Head(keys)] # EMPTY /\ match[Head(keys)] = EMPTY
          THEN << Issue("distributors", "warning", Head(keys)) >>
          ELSE << >>)
         \o DistributorFieldIssues(parsed, match, Tail(keys))

\* proposedByName.get(key): the last proposed entry of that normalised name.
ProposedMatch(proposedArr, key) ==
    { j \in 1..Len(proposedArr) :
        /\ proposedArr[j].name # EMPTY
        /\ NormalizedName(proposedArr[j].name) = key
        /\ \A k \in (j + 1)..Len(proposedArr) :
             ~(proposedArr[k].name # EMPTY /\ NormalizedName(proposedArr[k].name) = key) }

RECURSIVE PerDistributorIssues(_, _)
PerDistributorIssues(distributors, proposedArr) ==
    IF distributors = << >> THEN << >>
    ELSE LET m == ProposedMatch(proposedArr, NormalizedName(Head(distributors).name))
         IN  (IF m = {} THEN << >>
              ELSE DistributorFieldIssues(Head(distributors),
                       proposedArr[CHOOSE j \in m : TRUE], DistributorFieldKeys))
             \o PerDistributorIssues(Tail(distributors), proposedArr)

\* Distributor lists that are not reconciled.
DistributorsNeverChecked(parsedDistributors, brandData, cachedDistributors) == << >>

checkDistributors(parsedDistributors, brandData, cachedDistributors) ==
    LET distributors ==
            IF parsedDistributors = << >> /\ brandData["architonicUrl"] # EMPTY
               /\ Len(cachedDistributors) > 0
            THEN cachedDistributors ELSE parsedDistributors
        proposedArr == brandData["distributors"]
        missingNames ==
            { i \in 1..Len(distributors) :
                ProposedMatch(proposedArr, NormalizedName(distributors[i].name)) = {} }
    IN  IF distributors = << >> THEN << >>
        ELSE IF Len(proposedArr) = 0
             THEN << Issue("distributors", "warning", "empty") >>
             ELSE (IF 2 * Len(proposedArr) < Len(distributors)
                   THEN << Issue("distributors", "warning", "count") >> ELSE << >>)
                  \o PerDistributorIssues(distributors, proposedArr)
                  \o (IF missingNames # {}
                      THEN << Issue("distributors", "warning", "unmatched") >> ELSE << >>)

CountOf(seq, x) == Cardinality({ i \in 1..Len(seq) : seq[i] = x })

checkDescriptionPresent(markdown, brandData) ==
    IF markdown = EMPTY THEN << >>
    ELSE IF CountOf(markdown, "#about") = 0 THEN << >>
         ELSE IF brandData["description"] = EMPTY
              THEN << Issue("description", "warning", "missing") >>
              ELSE << >>

checkCatalogsPresent(markdown, brandData) ==
    IF markdown = EMPTY THEN << >>
    ELSE IF CountOf(markdown, "catalog") < 2 THEN << >>
         ELSE IF Len(brandData["catalogs"]) = 0
              THEN << Issue("catalogs", "warning", "missing") >>
              ELSE IF \A i \in 1..Len(brandData["catalogs"]) :
                          brandData["catalogs"][i].downloadUrl = EMPTY
                   THEN << Issue("catalogs", "warning", "noDownloadUrl") >>
                   ELSE << >>

\* executeValidateBrandData; cachedDistributors is getCachedDistributors(url).
executeValidateBrandData(scrapeResult, brandData, cachedDistributors) ==
    LET cd == scrapeResult.contactDetails
        issues ==
               checkContactField(cd, brandData, "phone", "phone")
            \o checkEmailField(cd, brandData)
            \o checkContactField(cd, brandData, "street", "street")
            \o checkContactField(cd, brandData, "city", "city")
            \o checkContactField(cd, brandData, "zip", "postalCode")
            \o checkContactField(cd, brandData, "lat", "latitude")
            \o checkContactField(cd, brandData, "lng", "longitude")
            \o checkContactField(cd, brandData, "website", "website")
            \o checkContactField(cd, brandData, "facebook", "facebook")
            \o checkContactField(cd, brandData, "instagram", "instagram")
            \o checkContactField(cd, brandData, "pinterest", "pinterest")
            \o checkHeaderImageFallback(scrapeResult.metadata, brandData)
            \o checkImageUrls(scrapeResult.extractedImageUrls, brandData)
            \o checkDistributors(scrapeResult.parsedDistributors, brandData, cachedDistributors)
            \o checkDescriptionPresent(scrapeResult.markdown, brandData)
            \o checkCatalogsPresent(scrapeResult.markdown, brandData)
        errorCount   == Len(SelectSeq(issues, LAMBDA i : i.severity = "error"))
        warningCount == Len(SelectSeq(issues, LAMBDA i : i.severity = "warning"))
    IN  [ valid        |-> errorCount = 0,
          errorCount   |-> errorCount,
          warningCount |-> warningCount,
          issues       |-> issues ]


\* ------------------------------------------------- resolving the saved record

NumChars == { "0", "1", "2", "3", "4", "5", "6", "7", "8", "9", ".", "-" }
\* A number is its decimal string; anything else is not finite.
toOptionalNumber(value) ==
    IF value # EMPTY /\ \A i \in 1..Len(value) : value[i] \in NumChars
    THEN value ELSE EMPTY

\* metadata.ogImage with its query string dropped: split("?")[0].
BeforeQuery(tokens) ==
    IF IndexOf(tokens, "?") = -1 THEN tokens ELSE SubSeq(tokens, 1, IndexOf(tokens, "?"))

resolveHeaderImageUrl(extractedHeaderImageUrl, metadata) ==
    IF toNonEmptyString(extractedHeaderImageUrl) # EMPTY
    THEN toNonEmptyString(extractedHeaderImageUrl)
    ELSE IF toNonEmptyString(metadata.ogImage) = EMPTY THEN EMPTY
         ELSE IF CountOf(BeforeQuery(toNonEmptyString(metadata.ogImage)), "logo") > 0
              THEN EMPTY
              ELSE BeforeQuery(toNonEmptyString(metadata.ogImage))

\* The section under the first About heading that has text, as one string.
extractDescriptionFromMarkdown(markdown) ==
    IF \E i \in 1..(Len(markdown) - 1) : markdown[i] = "#about" /\ markdown[i + 1] = "text"
    THEN << "t", "e", "x", "t" >> ELSE EMPTY

resolveScrapedPrimaryContact(contactDetails) ==
    LET rawEmail == firstNonEmptyString(
                        << contactDetails["email"], contactDetails["contactEmail"] >>)
    IN  [ contactEmail |->
            IF rawEmail # EMPTY /\ isPlausibleEmail(rawEmail) THEN rawEmail ELSE EMPTY ]

\* Links whose url was not seen before, as catalogs (the inferred title is left out).
RECURSIVE deriveCatalogsFrom(_, _)
deriveCatalogsFrom(catalogLinks, seenUrls) ==
    IF catalogLinks = << >> THEN << >>
    ELSE IF Head(catalogLinks).url = EMPTY \/ Head(catalogLinks).url \in seenUrls
         THEN deriveCatalogsFrom(Tail(catalogLinks), seenUrls)
         ELSE << [ downloadUrl |-> Head(catalogLinks).url ] >>
              \o deriveCatalogsFrom(Tail(catalogLinks), seenUrls \cup { Head(catalogLinks).url })

deriveCatalogs(catalogLinks) == deriveCatalogsFrom(catalogLinks, {})

\* The first non-empty of a snapshot image URL and the cached one (a || b || null).
OrElse(a, b) == IF a # EMPTY THEN a ELSE b

\* buildResolvedBrandData(args, snapshot), reading the three per-URL extract
\* caches at args.architonicUrl.
buildResolvedBrandData(args, snapshot, cachedDistributors, cachedCatalogLinks, cachedImages) ==
    LET contactDetails == snapshot.contactDetails
        scrapedPrimaryContact == resolveScrapedPrimaryContact(contactDetails)
        resolvedDistributors ==
            IF Len(cachedDistributors) > Len(snapshot.parsedDistributors)
            THEN cachedDistributors ELSE snapshot.parsedDistributors
        resolvedCatalogLinks ==
            IF Len(cachedCatalogLinks) > Len(snapshot.parsedCatalogLinks)
            THEN cachedCatalogLinks ELSE snapshot.parsedCatalogLinks
        imageUrls ==
            [ logoUrl        |-> OrElse(snapshot.extractedImageUrls.logoUrl, cachedImages.logoUrl),
              headerImageUrl |-> OrElse(snapshot.extractedImageUrls.headerImageUrl,
                                        cachedImages.headerImageUrl),
              aboutImageUrl  |-> OrElse(snapshot.extractedImageUrls.aboutImageUrl,
                                        cachedImages.aboutImageUrl) ]
        companyEmail == toNonEmptyString(contactDetails["email"])
    IN  [ name            |-> args.name,
          architonicUrl   |-> args.architonicUrl,
          scrapeSessionId |-> args.scrapeSessionId,
          architonicId    |-> parseArchitonicId(args.architonicUrl),
          countryCode     |-> toNonEmptyString(args.countryCode),
          description     |-> extractDescriptionFromMarkdown(snapshot.markdown),
          contactEmail    |-> OrElse(scrapedPrimaryContact.contactEmail,
                                     toNonEmptyString(args.contactEmail)),
          hunterContacts  |-> args.hunterContacts,
          street          |-> toNonEmptyString(contactDetails["street"]),
          city            |-> toNonEmptyString(contactDetails["city"]),
          postalCode      |-> toNonEmptyString(contactDetails["zip"]),
          phone           |-> toNonEmptyString(contactDetails["phone"]),
          email           |-> IF companyEmail # EMPTY /\ isPlausibleEmail(companyEmail)
                              THEN companyEmail ELSE EMPTY,
          latitude        |-> toOptionalNumber(contactDetails["lat"]),
          longitude       |-> toOptionalNumber(contactDetails["lng"]),
          website         |-> toNonEmptyString(contactDetails["website"]),
          facebook        |-> toNonEmptyString(contactDetails["facebook"]),
          instagram       |-> toNonEmptyString(contactDetails["instagram"]),
          pinterest       |-> toNonEmptyString(contactDetails["pinterest"]),
          logoUrl         |-> toNonEmptyString(imageUrls.logoUrl),
          headerImageUrl  |-> resolveHeaderImageUrl(imageUrls.headerImageUrl, snapshot.metadata),
          aboutImageUrl   |-> toNonEmptyString(imageUrls.aboutImageUrl),
          distributors    |-> resolvedDistributors,
          catalogs        |-> deriveCatalogs(resolvedCatalogLinks) ]

toValidationBrandData(resolvedData) ==
    [ architonicUrl  |-> resolvedData.architonicUrl,
      phone          |-> resolvedData.phone,
      email          |-> resolvedData.email,
      street         |-> resolvedData.street,
      city           |-> resolvedData.city,
      postalCode     |-> resolvedData.postalCode,
      latitude       |-> resolvedData.latitude,
      longitude      |-> resolvedData.longitude,
      website        |-> resolvedData.website,
      facebook       |-> resolvedData.facebook,
      instagram      |-> resolvedData.instagram,
      pinterest      |-> resolvedData.pinterest,
      description    |-> resolvedData.description,
      logoUrl        |-> resolvedData.logoUrl,
      headerImageUrl |-> resolvedData.headerImageUrl,
      aboutImageUrl  |-> resolvedData.aboutImageUrl,
      distributors   |-> resolvedData.distributors,
      catalogs       |-> resolvedData.catalogs,
      contactEmail   |-> resolvedData.contactEmail ]

\* The own property names of the raw request.
OwnKeys(args) == { "name", "architonicUrl", "scrapeSessionId" } \cup args.extraKeys

\* The check of lines 1489-1500 left out.
NoDisallowedFieldCheck(rawArgs) == {}

findDisallowedInputFields(rawArgs) ==
    { field \in DISALLOWED_SCRAPED_FIELDS : field \in OwnKeys(rawArgs) }

\* ------------------------------------------------------ Hunter enrichment

\* email.toLowerCase() for the sample alphabet.
LowerCase(s) == [ i \in 1..Len(s) |-> LowerChar(s[i]) ]

RECURSIVE normalizeHunterContactsFrom(_, _)
normalizeHunterContactsFrom(contacts, seenEmails) ==
    IF contacts = << >> THEN << >>
    ELSE LET email == LowerCase(toNonEmptyString(Head(contacts).email))
         IN  IF email = EMPTY \/ email \in seenEmails
             THEN normalizeHunterContactsFrom(Tail(contacts), seenEmails)
             ELSE << [ email |-> email ] >>
                  \o normalizeHunterContactsFrom(Tail(contacts), seenEmails \cup { email })

normalizeHunterContacts(contacts) == normalizeHunterContactsFrom(contacts, {})

\* resolveHunterContacts: configured is hunterClient.isConfigured(), found the
\* e-mails the domain search returns (empty when it returns none or throws).
resolveHunterContacts(providedContacts, website, configured, found) ==
    IF Len(normalizeHunterContacts(providedContacts)) > 0
    THEN [ contacts |-> normalizeHunterContacts(providedContacts), source |-> "provided" ]
    ELSE IF website = EMPTY \/ ~configured
         THEN [ contacts |-> << >>, source |-> "none" ]
         ELSE IF Len(normalizeHunterContacts(found)) = 0
              THEN [ contacts |-> << >>, source |-> "none" ]
              ELSE [ contacts |-> normalizeHunterContacts(found), source |-> "auto_lookup" ]


\* --------------------------------------------- Matterbase create payload cache

RECURSIVE normalizeProductTypesFrom(_, _)
normalizeProductTypesFrom(input, seen) ==
    IF input = << >> THEN << >>
    ELSE IF Head(input) \notin ValidProductTypes \/ Head(input) \in seen
         THEN normalizeProductTypesFrom(Tail(input), seen)
         ELSE << Head(input) >> \o normalizeProductTypesFrom(Tail(input), seen \cup { Head(input) })

normalizeProductTypes(input) == normalizeProductTypesFrom(input, {})

buildSavedMatterbaseCreatePayload(notionPageId, args, resolvedData, t) ==
    [ notionPageId    |-> notionPageId,
      scrapeSessionId |-> args.scrapeSessionId,
      name            |-> resolvedData.name,
      companyName     |-> OrElse(toNonEmptyString(args.companyName), resolvedData.name),
      productType     |-> normalizeProductTypes(args.productType),
      countryCode     |-> toNonEmptyString(args.countryCode),
      countryName     |-> toNonEmptyString(args.countryName),
      website         |-> resolvedData.website,
      contactEmail    |-> resolvedData.contactEmail,
      logoUrl         |-> resolvedData.logoUrl,
      savedAt         |-> t ]

RequiredPayloadFields ==
    << "name", "companyName", "productType", "countryCode", "countryName",
       "website", "contactEmail" >>

getMissingMatterbaseCreatePayloadFields(payload) ==
    SelectSeq(RequiredPayloadFields, LAMBDA f : payload[f] = EMPTY)

splitMissingMatterbaseCreateFields(missingFields) ==
    [ retryableMissingFields |->
          SelectSeq(missingFields, LAMBDA f : f \in RETRYABLE_MATTERBASE_CREATE_FIELDS),
      nonRetryableMissingFields |->
          SelectSeq(missingFields, LAMBDA f : f \notin RETRYABLE_MATTERBASE_CREATE_FIELDS) ]

SavedAtOf(entries) == [ j \in 1..Len(entries) |-> entries[j].savedAt ]

pruneMatterbaseCreatePayloadCache(cache, t) ==
    LET live == SelectSeq(cache,
                    LAMBDA q : ~(t - q.savedAt > MATTERBASE_CREATE_PAYLOAD_TTL_MS))
        removeCount == Len(live) - MATTERBASE_CREATE_PAYLOAD_MAX_ENTRIES
        keep == { i \in 1..Len(live) : SortRank(SavedAtOf(live), i) >= removeCount }
        KeepSeq[i \in 0..Len(live)] ==
            IF i = 0 THEN << >>
            ELSE IF i \in keep THEN Append(KeepSeq[i - 1], live[i]) ELSE KeepSeq[i - 1]
    IN  IF Len(live) <= MATTERBASE_CREATE_PAYLOAD_MAX_ENTRIES THEN live
        ELSE KeepSeq[Len(live)]

\* Map.delete(pageId)
PayloadCacheDelete(cache, pageId) == SelectSeq(cache, LAMBDA q : q.notionPageId # pageId)

\* A set that leaves the new payload as the only entry.
SetAsOnlyEntry(cache, pageId, payload) == << payload >>

\* Map.set(pageId, payload): an existing key keeps its place.
PayloadCacheSet(cache, pageId, payload) ==
    IF \E i \in 1..Len(cache) : cache[i].notionPageId = pageId
    THEN [ i \in 1..Len(cache) |->
             IF cache[i].notionPageId = pageId THEN payload ELSE cache[i] ]
    ELSE Append(cache, payload)

\* The prune without the insert that follows it.
PruneWithoutInsert(cache, pageId, payload, t) == pruneMatterbaseCreatePayloadCache(cache, t)

\* Lines 1649-1650 of executeSaveBrandToNotion: prune, then insert.
StoreMatterbaseCreatePayload(cache, pageId, payload, t) ==
    PayloadCacheSet(pruneMatterbaseCreatePayloadCache(cache, t), pageId, payload)

\* The payload stored whatever the split says.
PayloadStoredBeforeSplit(cache, pageId, payload, split, t) ==
    StoreMatterbaseCreatePayload(cache, pageId, payload, t)

\* Lines 1609-1610 and 1649-1650: with non-retryable fields missing the entry of
\* the page is deleted, otherwise the payload is stored.
PayloadCacheAfterSplit(cache, pageId, payload, split, t) ==
    IF Len(split.nonRetryableMissingFields) > 0
    THEN PayloadCacheDelete(cache, pageId)
    ELSE StoreMatterbaseCreatePayload(cache, pageId, payload, t)

NoPayload == [ notionPageId |-> 0 ]

\* A read that neither prunes nor checks the age of the entry.
PayloadFoundWhateverItsAge(cache, notionPageId, t) ==
    LET hits == { i \in 1..Len(cache) : cache[i].notionPageId = notionPageId }
    IN  IF hits = {} THEN << cache, NoPayload >>
        ELSE << cache, cache[CHOOSE i \in hits : TRUE] >>

\* getSavedMatterbaseCreatePayload: << the cache afterwards, the payload or NoPayload >>.
getSavedMatterbaseCreatePayload(cache, notionPageId, t) ==
    LET pruned == pruneMatterbaseCreatePayloadCache(cache, t)
        hits   == { i \in 1..Len(pruned) : pruned[i].notionPageId = notionPageId }
    IN  IF hits = {} THEN << pruned, NoPayload >>
        ELSE LET i == CHOOSE i \in hits : TRUE
             IN  IF t - pruned[i].savedAt > MATTERBASE_CREATE_PAYLOAD_TTL_MS
                 THEN << PayloadCacheDelete(pruned, notionPageId), NoPayload >>
                 ELSE << pruned, pruned[i] >>


\* ------------------------------------------------------ save_brand_to_notion

EnrichmentKeys ==
    { "name", "companyName", "countryCode", "countryName", "productType", "contactEmail" }

\* A request that supplies every enrichment field but those in omitted.
SaveRequest(sessionId, url, extraKeys, omitted, hunterContacts) ==
    [ extraKeys       |-> extraKeys,
      scrapeSessionId |-> sessionId,
      architonicUrl   |-> url,
      name            |-> IF "name" \in omitted THEN EMPTY ELSE << "n" >>,
      companyName     |-> IF "companyName" \in omitted THEN EMPTY ELSE << "c" >>,
      countryCode     |-> IF "countryCode" \in omitted THEN EMPTY ELSE << "D", "E" >>,
      countryName     |-> IF "countryName" \in omitted THEN EMPTY ELSE << "G" >>,
      productType     |-> IF "productType" \in omitted THEN << >> ELSE << "furniture" >>,
      contactEmail    |-> IF "contactEmail" \in omitted THEN EMPTY ELSE EmailPlausible,
      hunterContacts  |-> hunterContacts ]

ProvidedHunterContacts == << [ email |-> EmailPlausible ] >>

\* Requests without a forbidden field that leave some enrichment fields out,
\* complete requests that bring Hunter contacts, and complete requests that
\* also set the scraped field website.
SaveRequests ==
    { SaveRequest(id, url, {}, omitted, << >>) :
        id \in 1..MaxScrapes, url \in URLs,
        omitted \in { o \in SUBSET EnrichmentKeys : Cardinality(o) <= MaxOmitted }
                       \cup { { "name", "companyName" } } }
    \cup { SaveRequest(id, url, {}, {}, ProvidedHunterContacts) :
              id \in 1..MaxScrapes, url \in URLs }
    \cup { SaveRequest(id, url, { "website" }, {}, << >>) :
              id \in 1..MaxScrapes, url \in URLs }

Procs == { "p1" }

Idle == [ pc |-> "idle" ]

NoResolvedData == [ name |-> EMPTY ]
NoValidation == [ valid |-> FALSE, errorCount |-> -1, warningCount |-> -1, issues |-> << >> ]
NoSplit == [ retryableMissingFields |-> << >>, nonRetryableMissingFields |-> << >> ]

\* The local variables of one call, at its entry.
Entry(args) ==
    [ pc               |-> "entry",
      args             |-> args,
      disallowedFields |-> {},
      snapshot         |-> NoSnapshot,
      resolvedData     |-> NoResolvedData,
      hunterSource     |-> "",
      validation       |-> NoValidation,
      pageId           |-> 0,
      payload          |-> NoPayload,
      missingFields    |-> << >>,
      split            |-> NoSplit,
      archived         |-> FALSE,
      indexUpdated     |-> FALSE,
      code             |-> "" ]

\* A result is observed in the synchronous block that returns it: while a call
\* stands at "done" nothing else runs.
Quiescent == \A p \in DOMAIN save : save[p].pc # "done"

Returned(l, code) == [ l EXCEPT !.pc = "done", !.code = code ]

\* Lines 1489-1525: the disallowed-field check, the session lookup, the URL
\* comparison, buildResolvedBrandData, up to the await of resolveHunterContacts.
SaveStart(p, args) ==
    /\ Quiescent
    /\ save[p].pc = "idle"
    /\ savesStarted < MaxSaves * Cardinality(DOMAIN save)
    /\ savesStarted' = savesStarted + 1
    /\ LET disallowedFields == findDisallowedInputFields(args)
           got      == getBrandScrapeSession(brandScrapeSessionCache, args.scrapeSessionId, now)
           snapshot == got[2]
           l0       == [ Entry(args) EXCEPT !.disallowedFields = disallowedFields ]
           l1       == [ l0 EXCEPT !.snapshot = snapshot ]
       IN  IF disallowedFields # {}
           THEN /\ save' = [ save EXCEPT ![p] = Returned(l0, "DISALLOWED_SCRAPED_FIELDS") ]
                /\ UNCHANGED brandScrapeSessionCache
           ELSE /\ brandScrapeSessionCache' = got[1]
                /\ save' = [ save EXCEPT ![p] =
                     IF snapshot = NoSnapshot
                     THEN Returned(l1, "PROVENANCE_SESSION_NOT_FOUND")
                     ELSE IF snapshot.architonicUrl # args.architonicUrl
                          THEN Returned(l1, "PROVENANCE_URL_MISMATCH")
                          ELSE [ l1 EXCEPT
                                   !.pc = "awaitHunter",
                                   !.resolvedData =
                                       buildResolvedBrandData(args, snapshot,
                                           getCachedDistributors(args.architonicUrl),
                                           getCachedCatalogLinks(args.architonicUrl),
                                           getCachedImageUrls(args.architonicUrl)) ] ]
    /\ UNCHANGED aux
    /\ UNCHANGED << now, nextSessionId, distributorCache, catalogLinkCache, imageUrlCache,
                    matterbaseCreatePayloadCache, notionPages, brandIndex >>

\* Lines 1525-1592: resolveHunterContacts has returned; validation; on success
\* the POST /pages request is issued.
SaveAfterHunter(p, configured, found) ==
    /\ Quiescent
    /\ save[p].pc = "awaitHunter"
    /\ LET l == save[p]
           hunterEnrichment ==
               resolveHunterContacts(l.args.hunterContacts, l.resolvedData.website,
                                     configured, found)
           resolvedData == [ l.resolvedData EXCEPT !.hunterContacts = hunterEnrichment.contacts ]
           scrapeResultForValidation ==
               [ contactDetails     |-> l.snapshot.contactDetails,
                 parsedDistributors |-> l.snapshot.parsedDistributors,
                 markdown           |-> l.snapshot.markdown,
                 metadata           |-> l.snapshot.metadata,
                 extractedImageUrls |-> l.snapshot.extractedImageUrls ]
           validation ==
               executeValidateBrandData(scrapeResultForValidation,
                   toValidationBrandData(resolvedData),
                   getCachedDistributors(resolvedData.architonicUrl))
           l1 == [ l EXCEPT !.resolvedData = resolvedData,
                            !.hunterSource = hunterEnrichment.source,
                            !.validation = validation ]
       IN  save' = [ save EXCEPT ![p] =
               IF validation.errorCount > 0 \/ ~validation.valid
               THEN Returned(l1, "PROVENANCE_VALIDATION_FAILED")
               ELSE [ l1 EXCEPT !.pc = "awaitPost" ] ]
    /\ UNCHANGED aux
    /\ UNCHANGED << now, brandScrapeSessionCache, nextSessionId, distributorCache,
                    catalogLinkCache, imageUrlCache, matterbaseCreatePayloadCache,
                    notionPages, brandIndex, savesStarted >>

\* An archive request that changes nothing.
ArchiveWithoutEffect(pages, pageId, ok) == pages

\* archiveNotionPage(pageId): the PATCH archives the page when it goes through (ok).
archiveNotionPage(pages, pageId, ok) ==
    IF ok THEN [ pages EXCEPT ![pageId].archived = TRUE ] ELSE pages

\* A page of the brand index database.
IndexEntry(architonicId, status) == [ architonicId |-> architonicId, status |-> status ]

\* The pages a query of the index by Architonic ID returns, and the first of them.
IndexPositions(index, architonicId) ==
    { i \in 1..Len(index) : index[i].architonicId = architonicId }

FirstIndexPosition(index, architonicId) ==
    CHOOSE i \in IndexPositions(index, architonicId) :
        \A j \in IndexPositions(index, architonicId) : i <= j

\* markBrandIndexAsFailed(architonicId, notes) once it is known to have an
\* Architonic ID: the query finds the entry or not, and a failing request (not
\* ok) is caught.
markBrandIndexAsFailed(index, architonicId, ok) ==
    IF ok /\ IndexPositions(index, architonicId) # {}
    THEN [ index |-> [ index EXCEPT ![FirstIndexPosition(index, architonicId)].status = "failed" ],
           success |-> TRUE ]
    ELSE [ index |-> index, success |-> FALSE ]

\* What buildPageBody and the page properties persist of the resolved record.
NotionPage(resolvedData) ==
    [ archived        |-> FALSE,
      name            |-> resolvedData.name,
      architonicUrl   |-> resolvedData.architonicUrl,
      architonicId    |-> resolvedData.architonicId,
      scrapeSessionId |-> resolvedData.scrapeSessionId,
      contactEmail    |-> resolvedData.contactEmail,
      email           |-> resolvedData.email,
      website         |-> resolvedData.website,
      phone           |-> resolvedData.phone,
      logoUrl         |-> resolvedData.logoUrl,
      catalogs        |-> resolvedData.catalogs,
      distributors    |-> << >> ]

\* Lines 1592-1650: POST /pages has returned the new page; the create payload is
\* built and either dropped (non-retryable fields missing: the archive request
\* is issued) or stored.
SaveAfterPost(p) ==
    /\ Quiescent
    /\ save[p].pc = "awaitPost"
    /\ LET l       == save[p]
           pageId  == Len(notionPages) + 1
           matterbaseCreatePayload ==
               buildSavedMatterbaseCreatePayload(pageId, l.args, l.resolvedData, now)
           missing == getMissingMatterbaseCreatePayloadFields(matterbaseCreatePayload)
           split   == splitMissingMatterbaseCreateFields(missing)
           l1      == [ l EXCEPT !.pageId = pageId, !.payload = matterbaseCreatePayload,
                                 !.missingFields = missing, !.split = split ]
       IN  /\ notionPages' = Append(notionPages, NotionPage(l.resolvedData))
           /\ matterbaseCreatePayloadCache' =
                PayloadCacheAfterSplit(matterbaseCreatePayloadCache, pageId,
                                       matterbaseCreatePayload, split, now)
           /\ IF Len(split.nonRetryableMissingFields) > 0
              THEN save' = [ save EXCEPT ![p] = [ l1 EXCEPT !.pc = "awaitArchive" ] ]
              ELSE save' = [ save EXCEPT ![p] =
                        IF Len(l.resolvedData.distributors) > 0
                           \/ Len(l.resolvedData.hunterContacts) > 0
                        THEN [ l1 EXCEPT !.pc = "awaitSubTables" ]
                        ELSE Returned(l1, "SUCCESS") ]
    /\ UNCHANGED aux
    /\ UNCHANGED << now, brandScrapeSessionCache, nextSessionId, distributorCache,
                    catalogLinkCache, imageUrlCache, brandIndex, savesStarted >>

\* POST /pages failed: notionApiRequest throws and the call ends with the exception.
SavePostFails(p) ==
    /\ Quiescent
    /\ save[p].pc = "awaitPost"
    /\ save' = [ save EXCEPT ![p] = Returned(save[p], "THROWN") ]
    /\ UNCHANGED aux
    /\ UNCHANGED << now, brandScrapeSessionCache, nextSessionId, distributorCache,
                    catalogLinkCache, imageUrlCache, matterbaseCreatePayloadCache,
                    notionPages, brandIndex, savesStarted >>

\* archiveNotionPage(pageId) has returned: ok is whether the PATCH went through.
\* markBrandIndexAsFailed returns at once when there is no Architonic ID.
SaveAfterArchive(p, ok) ==
    /\ Quiescent
    /\ save[p].pc = "awaitArchive"
    /\ notionPages' = archiveNotionPage(notionPages, save[p].pageId, ok)
    /\ save' = [ save EXCEPT ![p] =
         IF save[p].resolvedData.architonicId = ""
         THEN Returned([ save[p] EXCEPT !.archived = ok ],
                       "MATTERBASE_CREATE_NON_RETRYABLE_MISSING_FIELDS")
         ELSE [ save[p] EXCEPT !.archived = ok, !.pc = "awaitIndex" ] ]
    /\ UNCHANGED aux
    /\ UNCHANGED << now, brandScrapeSessionCache, nextSessionId, distributorCache,
                    catalogLinkCache, imageUrlCache, matterbaseCreatePayloadCache,
                    brandIndex, savesStarted >>

\* markBrandIndexAsFailed has returned: the index entry of that Architonic ID, if
\* the query found one and no request failed (ok), now has status failed.
SaveAfterIndex(p, ok) ==
    /\ Quiescent
    /\ save[p].pc = "awaitIndex"
    /\ LET indexUpdate == markBrandIndexAsFailed(brandIndex, save[p].resolvedData.architonicId, ok)
       IN  /\ brandIndex' = indexUpdate.index
           /\ save' = [ save EXCEPT ![p] =
                Returned([ save[p] EXCEPT !.indexUpdated = indexUpdate.success ],
                         "MATTERBASE_CREATE_NON_RETRYABLE_MISSING_FIELDS") ]
    /\ UNCHANGED aux
    /\ UNCHANGED << now, brandScrapeSessionCache, nextSessionId, distributorCache,
                    catalogLinkCache, imageUrlCache, matterbaseCreatePayloadCache,
                    notionPages, savesStarted >>

\* Lines 1652-1688: the distributor and Hunter sub-tables have been written (ok)
\* or their errors caught; the call reports success.
SaveAfterSubTables(p, ok) ==
    /\ Quiescent
    /\ save[p].pc = "awaitSubTables"
    /\ notionPages' =
         IF ok THEN [ notionPages EXCEPT ![save[p].pageId].distributors =
                                      save[p].resolvedData.distributors ]
         ELSE notionPages
    /\ save' = [ save EXCEPT ![p] = Returned(save[p], "SUCCESS") ]
    /\ UNCHANGED aux
    /\ UNCHANGED << now, brandScrapeSessionCache, nextSessionId, distributorCache,
                    catalogLinkCache, imageUrlCache, matterbaseCreatePayloadCache,
                    brandIndex, savesStarted >>

\* The caller has the result; the call's locals are gone.
SaveReturn(p) ==
    /\ save[p].pc = "done"
    /\ save' = [ save EXCEPT ![p] = Idle ]
    /\ UNCHANGED aux
    /\ UNCHANGED << now, brandScrapeSessionCache, nextSessionId, distributorCache,
                    catalogLinkCache, imageUrlCache, matterbaseCreatePayloadCache,
                    notionPages, brandIndex, savesStarted >>

\* -------------------------------------------------------------- environment

Tick ==
    /\ Quiescent
    /\ now < MaxTime
    /\ now' = now + 1
    /\ UNCHANGED aux
    /\ UNCHANGED << brandScrapeSessionCache, nextSessionId, distributorCache,
                    catalogLinkCache, imageUrlCache, matterbaseCreatePayloadCache,
                    notionPages, brandIndex, save, savesStarted >>

Scrape == Quiescent /\ \E url \in URLs : \E ex \in Extractions(url) : ScrapeBrand(url, ex)

HunterFound == { << >>, << [ email |-> EmailPlausible ] >> }

\* Hunter is not configured, or it is and the domain search finds found.
HunterOutcomes == { << FALSE, << >> >> } \cup { << TRUE, found >> : found \in HunterFound }

NoCall == [ op |-> "none" ]

NoCreate == [ pc |-> "idle" ]

NoIndexCall == [ pc |-> "idle" ]

AddCallers == { "a1", "a2" }

NoAddCall == [ pc |-> "idle" ]

\* Minimum interval between edits, in milliseconds (status-message.ts 26-27).
MIN_EDIT_INTERVAL == 1500

\* messageId null, and a timer that is not set.
NULL == 0

\* createStatusState, lines 41-51. Date.now() is far from lastEditTime 0.
createStatusState ==
    [ messageId      |-> NULL,
      lastEditTime   |-> 0,
      pendingText    |-> << >>,
      debounceTimer  |-> NULL,
      completedTools |-> << >>,
      currentTool    |-> "",
      thinkingText   |-> FALSE ]

StatusCallers == { "h1", "h2" }

NoHandlerCall == [ pc |-> "idle" ]

NoCleanup == [ pc |-> "idle" ]

AuxInit ==
    /\ productScrapeSessionCache = << >>
    /\ storeCall = NoCall
    /\ heap = << >>
    /\ callerInput = NoCall
    /\ callerSnapshot = NoSnapshot
    /\ created = << >>
    /\ mbCreate = NoCreate
    /\ createCallsStarted = 0
    /\ matterbaseCalls = << >>
    /\ matterbaseIdUpdates = << >>
    /\ indexCall = NoIndexCall
    /\ indexCallsStarted = 0
    /\ addCall = [ p \in AddCallers |-> NoAddCall ]
    /\ addCallsStarted = 0
    /\ statusState = createStatusState
    /\ statusNow = MIN_EDIT_INTERVAL
    /\ handler = [ p \in StatusCallers |-> NoHandlerCall ]
    /\ handlerCallsStarted = 0
    /\ cleanup = NoCleanup
    /\ timerEdits = << >>
    /\ sentMessages = 0
    /\ deleteRequests = << >>
    /\ editCalls = << >>

NotValidating == [ pc |-> "idle" ]

\* The brand index holds an entry for Architonic ID 1 and none for 2.
Init ==
    /\ now = 0
    /\ brandScrapeSessionCache = << >>
    /\ nextSessionId = 1
    /\ distributorCache = [ u \in URLs |-> << >> ]
    /\ catalogLinkCache = [ u \in URLs |-> << >> ]
    /\ imageUrlCache = [ u \in URLs |-> NoImages ]
    /\ matterbaseCreatePayloadCache = << >>
    /\ notionPages = << >>
    /\ brandIndex = << IndexEntry("1", "pending") >>
    /\ save = [ p \in Procs |-> Idle ]
    /\ savesStarted = 0
    /\ AuxInit
    /\ validateCall = NotValidating

Next ==
    \/ Scrape
    \/ Tick
    \/ \E p \in Procs, args \in SaveRequests : SaveStart(p, args)
    \/ \E p \in Procs, h \in HunterOutcomes : SaveAfterHunter(p, h[1], h[2])
    \/ \E p \in Procs : SaveAfterPost(p)
    \/ \E p \in Procs : SavePostFails(p)
    \/ \E p \in Procs, ok \in BOOLEAN : SaveAfterArchive(p, ok)
    \/ \E p \in Procs, ok \in BOOLEAN : SaveAfterIndex(p, ok)
    \/ \E p \in Procs, ok \in BOOLEAN : SaveAfterSubTables(p, ok)
    \/ \E p \in Procs : SaveReturn(p)

Spec == Init /\ [][Next]_vars

\* ------------------------------------------------- product session store

\* products.ts: 60 minutes, here one hour of the clock; 1000 entries, here 2.
PRODUCT_SCRAPE_SESSION_TTL_MS == 1
PRODUCT_SCRAPE_SESSION_MAX_ENTRIES == 2

pruneProductScrapeSessionCache(cache, t) ==
    LET live == SelectSeq(cache,
                    LAMBDA s : ~(t - s.createdAt > PRODUCT_SCRAPE_SESSION_TTL_MS))
        removeCount == Len(live) - PRODUCT_SCRAPE_SESSION_MAX_ENTRIES
        keep == { i \in 1..Len(live) : SortRank(CreatedAtOf(live), i) >= removeCount }
        KeepSeq[i \in 0..Len(live)] ==
            IF i = 0 THEN << >>
            ELSE IF i \in keep THEN Append(KeepSeq[i - 1], live[i]) ELSE KeepSeq[i - 1]
    IN  IF Len(live) <= PRODUCT_SCRAPE_SESSION_MAX_ENTRIES THEN live
        ELSE KeepSeq[Len(live)]

\* The cache after createProductScrapeSession(snapshotInput) at time t with id.
createProductScrapeSession(cache, id, snapshotInput, t) ==
    LET snapshot ==
            [ scrapeSessionId |-> id,
              createdAt       |-> t,
              url             |-> snapshotInput.url,
              productName     |-> snapshotInput.productName,
              brandName       |-> snapshotInput.brandName,
              markdown        |-> snapshotInput.markdown,
              metadata        |-> snapshotInput.metadata ]
    IN  pruneProductScrapeSessionCache(
            Append(pruneProductScrapeSessionCache(cache, t), snapshot), t)

\* getProductScrapeSession: << the cache afterwards, the snapshot or NoSnapshot >>.
getProductScrapeSession(cache, id, t) ==
    LET pruned == pruneProductScrapeSessionCache(cache, t)
        hits   == { i \in 1..Len(pruned) : pruned[i].scrapeSessionId = id }
    IN  IF hits = {} THEN << pruned, NoSnapshot >>
        ELSE LET i == CHOOSE i \in hits : TRUE
             IN  IF t - pruned[i].createdAt > PRODUCT_SCRAPE_SESSION_TTL_MS
                 THEN << SelectSeq(pruned, LAMBDA s : s.scrapeSessionId # id), NoSnapshot >>
                 ELSE << pruned, pruned[i] >>

\* ------------------------------------- the session stores, called directly

MaxCreates == 4

\* What executeScrapeBrand hands to createBrandScrapeSession: a page with
\* distributors, catalog links, links and a logo, and a page without.
BrandSnapshotInputs ==
    { [ architonicUrl |-> u, extraction |-> Extraction(u, EmailPlausible, Website, rich) ] :
        u \in URLs, rich \in BOOLEAN }

\* What executeScrapeProduct hands to createProductScrapeSession.
ProductSnapshotInputs ==
    { [ url |-> Url1, productName |-> << "p" >>, brandName |-> << "a" >>,
        markdown |-> << "m" >>, metadata |-> [ title |-> << "t" >> ] ],
      [ url |-> Url2, productName |-> EMPTY, brandName |-> EMPTY,
        markdown |-> EMPTY, metadata |-> EMPTY ] }

StoreFrame ==
    UNCHANGED << now, distributorCache, catalogLinkCache, imageUrlCache,
                 matterbaseCreatePayloadCache, notionPages, brandIndex, save,
                 savesStarted, aliasVars, downstreamVars,
                 validateCall, toolVars >>

StoreCreateBrand(input) ==
    /\ nextSessionId <= MaxCreates
    /\ brandScrapeSessionCache' =
         createBrandScrapeSession(brandScrapeSessionCache, nextSessionId,
                                  input.architonicUrl, input.extraction, now)
    /\ nextSessionId' = nextSessionId + 1
    /\ storeCall' = [ op |-> "create", store |-> "brand", id |-> nextSessionId,
                      at |-> now, before |-> brandScrapeSessionCache, input |-> input ]
    /\ UNCHANGED productScrapeSessionCache
    /\ StoreFrame

StoreGetBrand(id) ==
    LET r == getBrandScrapeSession(brandScrapeSessionCache, id, now)
    IN  /\ brandScrapeSessionCache' = r[1]
        /\ storeCall' = [ op |-> "get", store |-> "brand", id |-> id, at |-> now,
                          before |-> brandScrapeSessionCache, result |-> r[2] ]
        /\ UNCHANGED << nextSessionId, productScrapeSessionCache >>
        /\ StoreFrame

StoreCreateProduct(input) ==
    /\ nextSessionId <= MaxCreates
    /\ productScrapeSessionCache' =
         createProductScrapeSession(productScrapeSessionCache, nextSessionId, input, now)
    /\ nextSessionId' = nextSessionId + 1
    /\ storeCall' = [ op |-> "create", store |-> "product", id |-> nextSessionId,
                      at |-> now, before |-> productScrapeSessionCache, input |-> input ]
    /\ UNCHANGED brandScrapeSessionCache
    /\ StoreFrame

StoreGetProduct(id) ==
    LET r == getProductScrapeSession(productScrapeSessionCache, id, now)
    IN  /\ productScrapeSessionCache' = r[1]
        /\ storeCall' = [ op |-> "get", store |-> "product", id |-> id, at |-> now,
                          before |-> productScrapeSessionCache, result |-> r[2] ]
        /\ UNCHANGED << nextSessionId, brandScrapeSessionCache >>
        /\ StoreFrame

\* The identifiers handed out so far.
IssuedSessionIds == 1..(nextSessionId - 1)

StoreNext ==
    \/ Tick
    \/ \E input \in BrandSnapshotInputs : StoreCreateBrand(input)
    \/ \E id \in IssuedSessionIds : StoreGetBrand(id)
    \/ \E input \in ProductSnapshotInputs : StoreCreateProduct(input)
    \/ \E id \in IssuedSessionIds : StoreGetProduct(id)

StoreSpec == Init /\ [][StoreNext]_vars

\* ------------------------------------------------------------------ claims

RejectionCodes ==
    { "DISALLOWED_SCRAPED_FIELDS", "PROVENANCE_SESSION_NOT_FOUND",
      "PROVENANCE_URL_MISMATCH", "PROVENANCE_VALIDATION_FAILED" }

\* The pcs of a call whose POST /pages request has been issued.
PersistIssued == { "awaitPost", "awaitArchive", "awaitIndex", "awaitSubTables" }

\* The four checks as the request and the call's own lookups decide them.
ChecksPassed(l) ==
    /\ l.args.extraKeys \cap DISALLOWED_SCRAPED_FIELDS = {}
    /\ l.snapshot # NoSnapshot
    /\ l.snapshot.scrapeSessionId = l.args.scrapeSessionId
    /\ l.snapshot.architonicUrl = l.args.architonicUrl
    /\ l.validation.errorCount = 0

Returns(p, codes) ==
    /\ save[p].pc # "done"
    /\ save'[p].pc = "done"
    /\ save'[p].code \in codes

C1_Step ==
    /\ \A p \in DOMAIN save :
         /\ save'[p].pc \in PersistIssued /\ save[p].pc \notin PersistIssued
              => ChecksPassed(save'[p])
         /\ Returns(p, RejectionCodes) => save[p].pc \notin PersistIssued
         /\ save[p] # save'[p] /\ save[p].pc \notin PersistIssued /\ save[p].pc # "done"
              => /\ notionPages' = notionPages
                 /\ matterbaseCreatePayloadCache' = matterbaseCreatePayloadCache
    /\ notionPages' # notionPages /\ Len(notionPages') > Len(notionPages)
         => \E p \in DOMAIN save :
              /\ save[p].pc = "awaitPost"
              /\ ChecksPassed(save[p])
              /\ save'[p].pageId = Len(notionPages')

\* C1: the POST /pages request is issued, and a page is added to the document
\* store, only by a call that in this same call passed the disallowed-field
\* check, found its session, matched its URL and validated with zero errors; a
\* call that returns one of the four rejections never issued the request, and no
\* step of a call before the request changes the document store or the
\* create-payload cache.
C1_PersistOnlyAfterChecks == [][C1_Step]_vars

\* A call has persisted its page and reported success.
C1_Witness ==
    \E p \in DOMAIN save :
        /\ save[p].pc = "done"
        /\ save[p].code = "SUCCESS"
        /\ save[p].pageId = Len(notionPages)
        /\ ChecksPassed(save[p])

\* The session store holds session id, created at most the TTL ago.
LiveSessions(id) ==
    { i \in 1..Len(brandScrapeSessionCache) :
        /\ brandScrapeSessionCache[i].scrapeSessionId = id
        /\ now - brandScrapeSessionCache[i].createdAt <= BRAND_SCRAPE_SESSION_TTL_MS }

\* The request names a live session recorded for another URL.
NamesLiveSessionOfOtherUrl(args) ==
    \E i \in LiveSessions(args.scrapeSessionId) :
        brandScrapeSessionCache[i].architonicUrl # args.architonicUrl

HasForbiddenField(args) == args.extraKeys \cap DISALLOWED_SCRAPED_FIELDS # {}

\* C2: a call whose request names a live session recorded for another URL never
\* gets past the URL comparison: it has returned, without a page, and its result
\* is PROVENANCE_URL_MISMATCH when the request carries no caller-forbidden field
\* and DISALLOWED_SCRAPED_FIELDS when it does; it is never
\* PROVENANCE_SESSION_NOT_FOUND.
C2_LiveSessionOtherUrl ==
    \A p \in DOMAIN save :
        save[p].pc # "idle" /\ NamesLiveSessionOfOtherUrl(save[p].args)
        => /\ save[p].pc = "done"
           /\ save[p].pageId = 0
           /\ save[p].code = IF HasForbiddenField(save[p].args)
                             THEN "DISALLOWED_SCRAPED_FIELDS"
                             ELSE "PROVENANCE_URL_MISMATCH"

\* A request without forbidden field that named a live session of the other URL
\* has been answered PROVENANCE_URL_MISMATCH.
C2_Witness ==
    \E p \in DOMAIN save :
        /\ save[p].pc = "done"
        /\ ~HasForbiddenField(save[p].args)
        /\ NamesLiveSessionOfOtherUrl(save[p].args)
        /\ save[p].code = "PROVENANCE_URL_MISMATCH"

\* C2 as stated: every call that names a live session recorded for another URL
\* ends in PROVENANCE_URL_MISMATCH.
C2_AsStated ==
    \A p \in DOMAIN save :
        save[p].pc = "done" /\ NamesLiveSessionOfOtherUrl(save[p].args)
        => save[p].code = "PROVENANCE_URL_MISMATCH"

StartStep(p) == save[p].pc = "idle" /\ save'[p].pc # "idle"

C3_Step ==
    \A p \in DOMAIN save :
        /\ StartStep(p)
        /\ LiveSessions(save'[p].args.scrapeSessionId) = {}
        /\ ~HasForbiddenField(save'[p].args)
        => /\ Returns(p, { "PROVENANCE_SESSION_NOT_FOUND" })
           /\ notionPages' = notionPages
           /\ matterbaseCreatePayloadCache' = matterbaseCreatePayloadCache

\* C3: a call that carries no caller-forbidden field and names a session the
\* store does not hold (never created, or evicted for capacity) or holds with an
\* age above the TTL returns PROVENANCE_SESSION_NOT_FOUND from its first step,
\* whatever its URL and enrichment fields, and persists nothing.
C3_NoLiveSessionNotFound == [][C3_Step]_vars

\* Session 1 was created and no time has passed, yet the store no longer holds
\* it (evicted for capacity), and the call naming it got
\* PROVENANCE_SESSION_NOT_FOUND.
C3_Witness ==
    \E p \in DOMAIN save :
        /\ save[p].pc = "done"
        /\ save[p].code = "PROVENANCE_SESSION_NOT_FOUND"
        /\ save[p].args.scrapeSessionId < nextSessionId
        /\ now = 0
        /\ LiveSessions(save[p].args.scrapeSessionId) = {}

\* C3 as stated: whatever the other arguments, a call that returns from its
\* first step and names a session that is not live returns
\* PROVENANCE_SESSION_NOT_FOUND.
C3_AsStated ==
    [][\A p \in DOMAIN save :
        StartStep(p) /\ LiveSessions(save'[p].args.scrapeSessionId) = {}
        => Returns(p, { "PROVENANCE_SESSION_NOT_FOUND" })]_vars

\* The forbidden fields the claim lists, of which the requests use website.
ListedForbiddenFields ==
    { "website", "logoUrl", "street", "phone", "email", "distributors", "catalogs" }

C4_Step ==
    \A p \in DOMAIN save :
        StartStep(p) /\ save'[p].args.extraKeys \cap ListedForbiddenFields # {}
        => /\ Returns(p, { "DISALLOWED_SCRAPED_FIELDS" })
           /\ save'[p].snapshot = NoSnapshot
           /\ UNCHANGED << brandScrapeSessionCache, matterbaseCreatePayloadCache,
                           notionPages, brandIndex >>

\* C4: a call whose request contains a caller-forbidden scraped field returns
\* DISALLOWED_SCRAPED_FIELDS from its first step, whatever the session id and
\* URL, and that step leaves the session store as it was (no lookup, no prune)
\* and persists nothing.
C4_DisallowedBeforeLookup == [][C4_Step]_vars

\* A call was answered DISALLOWED_SCRAPED_FIELDS while the store holds an expired
\* session, which a lookup would have pruned, and the request names no live
\* session.
C4_Witness ==
    \E p \in DOMAIN save :
        /\ save[p].pc = "done"
        /\ save[p].code = "DISALLOWED_SCRAPED_FIELDS"
        /\ LiveSessions(save[p].args.scrapeSessionId) = {}
        /\ \E i \in 1..Len(brandScrapeSessionCache) :
             now - brandScrapeSessionCache[i].createdAt > BRAND_SCRAPE_SESSION_TTL_MS

Range(seq) == { seq[i] : i \in 1..Len(seq) }

\* The calls that have a page in the document store, each with its page.
Persisted == { p \in DOMAIN save : save[p].pc # "idle" /\ save[p].pageId # 0 }

\* The contact fields of the page are those of the call's own snapshot.
ContactFromSnapshot(page, l) ==
    LET contactDetails == l.snapshot.contactDetails
    IN  /\ page.scrapeSessionId = l.snapshot.scrapeSessionId
        /\ page.architonicUrl = l.snapshot.architonicUrl
        /\ page.website = toNonEmptyString(contactDetails["website"])
        /\ page.phone = toNonEmptyString(contactDetails["phone"])
        /\ page.email \in { EMPTY, toNonEmptyString(contactDetails["email"]) }
        /\ page.contactEmail \in { toNonEmptyString(contactDetails["email"]),
                                   toNonEmptyString(contactDetails["contactEmail"]),
                                   toNonEmptyString(l.args.contactEmail) }

\* What any scrape of url can extract.
DistributorsOfUrl(url) == UNION { Range(ex.parsedDistributors) : ex \in Extractions(url) }
CatalogUrlsOfUrl(url) ==
    UNION { { link.url : link \in Range(ex.parsedCatalogLinks) } : ex \in Extractions(url) }
LogosOfUrl(url) == { ex.extractedImageUrls.logoUrl : ex \in Extractions(url) }

\* C5: the contact fields of a persisted page are those of the snapshot of the
\* session the save named. Its catalogs, logo and distributors are the
\* snapshot's own, or, where the snapshot's list is shorter or its logo missing,
\* ones extracted from the same URL (by whichever scrape filled the per-URL
\* extract cache); nothing extracted from another URL appears.
C5_SnapshotOrSameUrlExtract ==
    \A p \in Persisted :
        LET l    == save[p]
            page == notionPages[l.pageId]
            url  == l.snapshot.architonicUrl
        IN  /\ ContactFromSnapshot(page, l)
            /\ \/ page.catalogs = deriveCatalogs(l.snapshot.parsedCatalogLinks)
               \/ /\ Len(page.catalogs) > Len(l.snapshot.parsedCatalogLinks)
                  /\ \A c \in Range(page.catalogs) : c.downloadUrl \in CatalogUrlsOfUrl(url)
            /\ IF l.snapshot.extractedImageUrls.logoUrl # EMPTY
               THEN page.logoUrl = l.snapshot.extractedImageUrls.logoUrl
               ELSE page.logoUrl \in { EMPTY } \cup LogosOfUrl(url)
            /\ \/ page.distributors \in { << >>, l.snapshot.parsedDistributors }
               \/ /\ Len(page.distributors) > Len(l.snapshot.parsedDistributors)
                  /\ Range(page.distributors) \subseteq DistributorsOfUrl(url)

\* A save has succeeded whose session's snapshot has no catalog link, logo or
\* distributor, and whose page has all three, extracted by another scrape of the
\* same URL.
C5_Witness ==
    \E p \in Persisted :
        LET l    == save[p]
            page == notionPages[l.pageId]
        IN  /\ l.pc = "done" /\ l.code = "SUCCESS"
            /\ l.snapshot.parsedCatalogLinks = << >>
            /\ l.snapshot.parsedDistributors = << >>
            /\ l.snapshot.extractedImageUrls.logoUrl = EMPTY
            /\ page.catalogs # << >> /\ page.distributors # << >> /\ page.logoUrl # EMPTY
            /\ ContactFromSnapshot(page, l)

\* C5 as stated: every scraped field of a persisted page is the one of the
\* snapshot of the session the save named.
C5_AsStated ==
    \A p \in Persisted :
        LET l    == save[p]
            page == notionPages[l.pageId]
        IN  /\ ContactFromSnapshot(page, l)
            /\ page.catalogs = deriveCatalogs(l.snapshot.parsedCatalogLinks)
            /\ page.logoUrl = toNonEmptyString(l.snapshot.extractedImageUrls.logoUrl)
            /\ page.distributors \in { << >>, l.snapshot.parsedDistributors }

PayloadPageIds(cache) == { cache[i].notionPageId : i \in 1..Len(cache) }

RolledBack(l) ==
    \/ l.pc \in { "awaitArchive", "awaitIndex" }
    \/ l.pc = "done" /\ l.code = "MATTERBASE_CREATE_NON_RETRYABLE_MISSING_FIELDS"

C6_Step ==
    /\ \A id \in PayloadPageIds(matterbaseCreatePayloadCache') :
         \/ id \in PayloadPageIds(matterbaseCreatePayloadCache)
         \/ \E p \in DOMAIN save :
              /\ save[p].pc = "awaitPost"
              /\ ChecksPassed(save[p])
              /\ save'[p].pageId = id
              /\ ~RolledBack(save'[p])
    /\ \A id \in PayloadPageIds(matterbaseCreatePayloadCache') :
         /\ id \in 1..Len(notionPages')
         /\ ~notionPages'[id].archived
    /\ \A p \in DOMAIN save :
         save'[p].pc # "idle" /\ RolledBack(save'[p])
         => save'[p].pageId \notin PayloadPageIds(matterbaseCreatePayloadCache')

\* C6: every payload that enters the create-payload cache is put there by a call
\* that passed the four checks with zero validation errors, for the page it has
\* just created, and that call is not rolled back; after every step each entry's
\* page exists and is not archived, and a call that rolls back has no entry for
\* its page.
C6_PayloadOnlyForValidatedKeptRecords == [][C6_Step]_vars

\* The call has returned and its page, not archived, has its payload in the cache.
C6_Witness ==
    /\ \A p \in DOMAIN save : save[p].pc = "idle"
    /\ \E id \in PayloadPageIds(matterbaseCreatePayloadCache) :
         /\ id \in 1..Len(notionPages)
         /\ ~notionPages[id].archived

NonRetryableReturned ==
    { p \in DOMAIN save :
        /\ save[p].pc = "done"
        /\ save[p].code = "MATTERBASE_CREATE_NON_RETRYABLE_MISSING_FIELDS" }

\* The index has a page of that Architonic ID with that status.
IndexHas(architonicId, status) ==
    \E i \in IndexPositions(brandIndex, architonicId) : brandIndex[i].status = status

Lacks(payload, fields) == { f \in fields : payload[f] = EMPTY }

SuccessReturned == { p \in DOMAIN save : save[p].pc = "done" /\ save[p].code = "SUCCESS" }

\* C8: once the page is persisted the save is rolled back exactly when the
\* computed payload lacks name, companyName or website; a payload that has
\* these three is stored and the save succeeds, and the productType,
\* countryCode, countryName and contactEmail it lacks are the retryable missing
\* fields of the result.
C8_RollbackOnNameCompanyWebsite ==
    \A p \in Persisted :
        LET l == save[p]
        IN  /\ RolledBack(l) <=> Lacks(l.payload, { "name", "companyName", "website" }) # {}
            /\ ~RolledBack(l) =>
                 /\ l.pc = "awaitSubTables" \/ l.code = "SUCCESS"
                 /\ Range(l.split.retryableMissingFields) =
                      Lacks(l.payload,
                            { "productType", "countryCode", "countryName", "contactEmail" })

\* A save has succeeded whose payload lacks the country code, listed as retryable.
C8_Witness ==
    \E p \in SuccessReturned :
        /\ save[p].payload.countryCode = EMPTY
        /\ "countryCode" \in Range(save[p].split.retryableMissingFields)
        /\ save[p].pageId \in PayloadPageIds(matterbaseCreatePayloadCache)

\* C8 as stated: a payload that lacks any of name, company name, product
\* categories, country code, website or contact email is rolled back, and one
\* that lacks only the country name succeeds with countryName retryable.
C8_AsStated ==
    \A p \in Persisted :
        LET l == save[p]
        IN  /\ Lacks(l.payload, { "name", "companyName", "productType", "countryCode",
                                  "website", "contactEmail" }) # {}
               => RolledBack(l)
            /\ Lacks(l.payload, Range(RequiredPayloadFields)) = { "countryName" }
               => /\ ~RolledBack(l)
                  /\ Range(l.split.retryableMissingFields) = { "countryName" }

\* The calls that stored their payload: persisted and not rolled back.
Stored == { p \in Persisted : ~RolledBack(save[p]) }

\* What a read of the page's payload returns now.
SavedPayloadNow(l) ==
    getSavedMatterbaseCreatePayload(matterbaseCreatePayloadCache, l.pageId, now)[2]

\* C9: from the insert until the save reports success, a read of the payload by
\* the page id returns the payload the save computed as long as no more than the
\* payload TTL has passed since savedAt, which holds at the insert and may have
\* stopped holding during the sub-table writes that precede the return; the
\* retryable missing fields of the result are exactly the required payload
\* fields that are empty, none of them non-retryable.
C9_PayloadReadableWithinTtl ==
    \A p \in Stored :
        LET l == save[p]
        IN  /\ now - l.payload.savedAt <= MATTERBASE_CREATE_PAYLOAD_TTL_MS
               => SavedPayloadNow(l) = l.payload
            /\ l.payload.notionPageId = l.pageId
            /\ Range(l.split.retryableMissingFields) =
                 Lacks(l.payload, Range(RequiredPayloadFields))
            /\ l.missingFields = l.split.retryableMissingFields
            /\ l.split.nonRetryableMissingFields = << >>

\* A save that wrote the distributor sub-table reports success, a read returns
\* its payload, and the result lists a retryable missing field.
C9_Witness ==
    \E p \in SuccessReturned :
        /\ save[p].resolvedData.distributors # << >>
        /\ SavedPayloadNow(save[p]) = save[p].payload
        /\ save[p].split.retryableMissingFields # << >>

\* C9 as stated: when a save reports success a read of the payload by the page
\* id returns it, and the retryable missing fields are the empty required ones.
C9_AsStated ==
    \A p \in SuccessReturned :
        /\ SavedPayloadNow(save[p]) = save[p].payload
        /\ Range(save[p].split.retryableMissingFields) =
             Lacks(save[p].payload, Range(RequiredPayloadFields))

\* The calls past the URL comparison whose session has an email, whose request
\* has no contactEmail, and whose validation has run.
ValidatedWithoutContactEmail ==
    { p \in DOMAIN save :
        /\ save[p].pc \notin { "idle", "awaitHunter" }
        /\ ~HasForbiddenField(save[p].args)
        /\ save[p].snapshot # NoSnapshot
        /\ save[p].snapshot.architonicUrl = save[p].args.architonicUrl
        /\ save[p].snapshot.contactDetails["email"] # EMPTY
        /\ toNonEmptyString(save[p].args.contactEmail) = EMPTY }

EmailIssues(validation) == { i \in Range(validation.issues) : i.field = "email" }

\* C10: for a save with a live session, the matching URL and no contactEmail,
\* whose session has an email: when that email is the plausible sample the
\* resolved record takes email and contactEmail from it, validation raises no
\* email issue and the save is not rejected; when it is the sample only the
\* loose scan accepts, the save returns PROVENANCE_VALIDATION_FAILED.
C10_FailsOnlyOnImplausibleEmail ==
    \A p \in ValidatedWithoutContactEmail :
        LET l     == save[p]
            email == l.snapshot.contactDetails["email"]
        IN  /\ email \in { EmailPlausible, EmailLoose }
            /\ email = EmailPlausible =>
                 /\ l.resolvedData.email = email
                 /\ l.resolvedData.contactEmail = email
                 /\ EmailIssues(l.validation) = {}
                 /\ l.code # "PROVENANCE_VALIDATION_FAILED"
            /\ email = EmailLoose =>
                 /\ l.resolvedData.email = EMPTY
                 /\ l.resolvedData.contactEmail = EMPTY
                 /\ l.pc = "done"
                 /\ l.code = "PROVENANCE_VALIDATION_FAILED"
                 /\ l.pageId = 0

\* A save without contactEmail whose session has the loose email was rejected
\* with PROVENANCE_VALIDATION_FAILED for the missing email.
C10_Witness ==
    \E p \in ValidatedWithoutContactEmail :
        /\ save[p].snapshot.contactDetails["email"] = EmailLoose
        /\ save[p].code = "PROVENANCE_VALIDATION_FAILED"
        /\ EmailIssues(save[p].validation) # {}

\* C10 as stated: such a save is rejected with PROVENANCE_VALIDATION_FAILED.
C10_AsStated ==
    \A p \in ValidatedWithoutContactEmail :
        save[p].pc = "done" /\ save[p].code = "PROVENANCE_VALIDATION_FAILED"

\* --------------------------------------------- two callers of the save tool

\* Two tool calls can be in flight at once: each await of one lets the other run.
Callers == { "p1", "p2" }

\* The scrape of the first brand page, finding distributors, catalog links and a logo.
ScrapeFirstPage ==
    Quiescent /\ ScrapeBrand(Url1, Extraction(Url1, EmailPlausible, Website, TRUE))

\* Requests for that page: complete, without country name, without name and
\* company name.
ConcurrentRequests ==
    { SaveRequest(id, Url1, {}, omitted, << >>) :
        id \in 1..MaxScrapes,
        omitted \in { {}, { "countryName" }, { "name", "companyName" } } }

ConcurrentInit ==
    /\ now = 0
    /\ brandScrapeSessionCache = << >>
    /\ nextSessionId = 1
    /\ distributorCache = [ u \in URLs |-> << >> ]
    /\ catalogLinkCache = [ u \in URLs |-> << >> ]
    /\ imageUrlCache = [ u \in URLs |-> NoImages ]
    /\ matterbaseCreatePayloadCache = << >>
    /\ notionPages = << >>
    /\ brandIndex = << IndexEntry("1", "pending") >>
    /\ save = [ p \in Callers |-> Idle ]
    /\ savesStarted = 0
    /\ AuxInit
    /\ validateCall = NotValidating

ConcurrentNext ==
    \/ ScrapeFirstPage
    \/ Tick
    \/ \E p \in Callers, args \in ConcurrentRequests : SaveStart(p, args)
    \/ \E p \in Callers, h \in HunterOutcomes : SaveAfterHunter(p, h[1], h[2])
    \/ \E p \in Callers : SaveAfterPost(p)
    \/ \E p \in Callers : SavePostFails(p)
    \/ \E p \in Callers, ok \in BOOLEAN : SaveAfterArchive(p, ok)
    \/ \E p \in Callers, ok \in BOOLEAN : SaveAfterIndex(p, ok)
    \/ \E p \in Callers, ok \in BOOLEAN : SaveAfterSubTables(p, ok)
    \/ \E p \in Callers : SaveReturn(p)

ConcurrentSpec == ConcurrentInit /\ [][ConcurrentNext]_vars

\* ------------------------------------------------- matterbase_create_brand

MaxCreateCalls == 2

DownstreamFrame ==
    UNCHANGED << now, brandScrapeSessionCache, nextSessionId, distributorCache,
                 catalogLinkCache, imageUrlCache, notionPages, brandIndex, save,
                 savesStarted, productScrapeSessionCache, storeCall, aliasVars,
                 validateCall, toolVars >>

ToolCall(tool, notionPageId) == [ tool |-> tool, notionPageId |-> notionPageId ]

CreateReturned(c, code) == [ c EXCEPT !.pc = "done", !.code = code ]

\* workflowChecklist of the result (lines 333-358).
WorkflowChecklist(createSucceeded, matterbaseId, linkSucceeded) ==
    [ createSucceeded          |-> createSucceeded,
      matterbaseIdResolved     |-> matterbaseId # EMPTY,
      notionMatterbaseIdLinked |-> linkSucceeded,
      canMarkIndexScraped      |-> createSucceeded /\ matterbaseId # EMPTY /\ linkSucceeded ]

\* A result that returns before the checklist is built has none.
NoChecklist ==
    [ createSucceeded |-> FALSE, matterbaseIdResolved |-> FALSE,
      notionMatterbaseIdLinked |-> FALSE, canMarkIndexScraped |-> FALSE ]

\* executeMatterbaseCreateBrandFromNotion, lines 197-210: the payload is read;
\* without one the call returns, with one resolveCountryName is awaited, which
\* asks the Matterbase client for the country list when the payload has a
\* country code and no country name.
CreateStart(notionPageId) ==
    LET got     == getSavedMatterbaseCreatePayload(matterbaseCreatePayloadCache,
                                                   notionPageId, now)
        payload == got[2]
        c0      == [ pc |-> "idle", notionPageId |-> notionPageId, at |-> now,
                     before |-> matterbaseCreatePayloadCache, payload |-> payload,
                     lookup |-> FALSE, countryName |-> EMPTY, matterbaseId |-> EMPTY,
                     checklist |-> NoChecklist, code |-> "" ]
        lookup  == payload # NoPayload /\ payload.countryName = EMPTY
                   /\ payload.countryCode # EMPTY
    IN  /\ Quiescent
        /\ mbCreate.pc = "idle"
        /\ createCallsStarted < MaxCreateCalls
        /\ createCallsStarted' = createCallsStarted + 1
        /\ matterbaseCreatePayloadCache' = got[1]
        /\ mbCreate' =
             IF payload = NoPayload
             THEN CreateReturned(c0, "MISSING_SAVED_NOTION_SOURCE")
             ELSE [ c0 EXCEPT !.pc = "awaitCountry", !.lookup = lookup,
                              !.countryName = payload.countryName ]
        /\ matterbaseCalls' =
             IF lookup
             THEN Append(matterbaseCalls, ToolCall("matterbase_list_countries", notionPageId))
             ELSE matterbaseCalls
        /\ UNCHANGED matterbaseIdUpdates
        /\ DownstreamFrame

\* A creation step that takes every saved payload for complete.
NothingMissingForCreate(payload, countryName) == << >>

\* The fields executeMatterbaseCreateBrandFromNotion requires, in its order.
MissingForCreate(payload, countryName) ==
    SelectSeq(<< "name", "companyName", "productType", "countryCode", "countryName",
                 "website", "contactEmail" >>,
              LAMBDA f : IF f = "countryName" THEN countryName = EMPTY
                         ELSE payload[f] = EMPTY)

\* Lines 207-256: resolveCountryName has returned (outcome: the list has the
\* code, has it not, or the request threw); an incomplete payload returns, a
\* complete one is sent to matterbase_create_brand.
CreateAfterCountry(outcome) ==
    LET c == mbCreate
        countryName ==
            IF ~c.lookup THEN c.countryName
            ELSE IF outcome = "matched" THEN << "N" >> ELSE EMPTY
        missingFields == MissingForCreate(c.payload, countryName)
    IN  /\ Quiescent
        /\ c.pc = "awaitCountry"
        /\ ~c.lookup => outcome = "matched"
        /\ IF outcome = "throws"
           THEN /\ mbCreate' = CreateReturned(c, "MATTERBASE_CREATE_BRAND_FAILED")
                /\ UNCHANGED matterbaseCalls
           ELSE IF missingFields # << >>
           THEN /\ mbCreate' = CreateReturned([ c EXCEPT !.countryName = countryName ],
                                              "INCOMPLETE_SAVED_NOTION_SOURCE")
                /\ UNCHANGED matterbaseCalls
           ELSE /\ mbCreate' = [ c EXCEPT !.pc = "awaitCreate", !.countryName = countryName ]
                /\ matterbaseCalls' =
                     Append(matterbaseCalls, ToolCall("matterbase_create_brand", c.notionPageId))
        /\ UNCHANGED << matterbaseCreatePayloadCache, createCallsStarted, matterbaseIdUpdates >>
        /\ DownstreamFrame

CreateOutcomes ==
    { "throws", "unreadable", "rejected", "rejectedWithId", "createdWithId",
      "createdIdBySearch", "createdWithoutId" }

\* Lines 256-293: matterbase_create_brand has returned; a created brand whose
\* response has no id is looked up with matterbase_search_brands; with an id
\* the Brands page's Matterbase ID is updated.
CreateAfterService(outcome) ==
    LET c == mbCreate
        searched == outcome \in { "createdIdBySearch", "createdWithoutId" }
    IN  /\ Quiescent
        /\ c.pc = "awaitCreate"
        /\ mbCreate' =
             CASE outcome = "throws" -> CreateReturned(c, "MATTERBASE_CREATE_BRAND_FAILED")
               [] outcome = "unreadable" -> CreateReturned(c, "INVALID_MATTERBASE_RESPONSE")
               [] outcome = "rejected" ->
                    CreateReturned([ c EXCEPT !.checklist =
                                         WorkflowChecklist(FALSE, EMPTY, FALSE) ],
                                   "REJECTED_BY_MATTERBASE")
               [] outcome = "rejectedWithId" ->
                    CreateReturned([ c EXCEPT !.matterbaseId = << "m" >>,
                                              !.checklist =
                                         WorkflowChecklist(FALSE, << "m" >>, FALSE) ],
                                   "REJECTED_BY_MATTERBASE")
               [] outcome = "createdWithoutId" ->
                    CreateReturned([ c EXCEPT !.checklist =
                                         WorkflowChecklist(TRUE, EMPTY, FALSE) ],
                                   "MISSING_MATTERBASE_ID_IN_CREATE_RESPONSE")
               [] OTHER -> [ c EXCEPT !.pc = "awaitLink", !.matterbaseId = << "m" >> ]
        /\ matterbaseCalls' =
             IF searched
             THEN Append(matterbaseCalls, ToolCall("matterbase_search_brands", c.notionPageId))
             ELSE matterbaseCalls
        /\ UNCHANGED << matterbaseCreatePayloadCache, createCallsStarted, matterbaseIdUpdates >>
        /\ DownstreamFrame

\* Lines 293-380: executeUpdateBrandNotionMatterbaseId has returned.
CreateAfterLink(ok) ==
    LET c == mbCreate
    IN  /\ Quiescent
        /\ c.pc = "awaitLink"
        /\ mbCreate' = CreateReturned([ c EXCEPT !.checklist =
                                          WorkflowChecklist(TRUE, c.matterbaseId, ok) ],
                                      IF ok THEN "CREATED"
                                      ELSE "NOTION_MATTERBASE_ID_UPDATE_FAILED")
        /\ matterbaseIdUpdates' =
             IF ok THEN Append(matterbaseIdUpdates,
                               [ notionPageId |-> c.notionPageId,
                                 matterbaseId |-> c.matterbaseId ])
             ELSE matterbaseIdUpdates
        /\ UNCHANGED << matterbaseCreatePayloadCache, createCallsStarted, matterbaseCalls >>
        /\ DownstreamFrame

CreateReturn ==
    /\ mbCreate.pc = "done"
    /\ mbCreate' = NoCreate
    /\ UNCHANGED << matterbaseCreatePayloadCache, createCallsStarted, matterbaseCalls,
                    matterbaseIdUpdates >>
    /\ DownstreamFrame

\* Requests for the first brand page: complete, without country name, without
\* product type, without name and company name.
DownstreamRequests ==
    { SaveRequest(1, Url1, {}, omitted, << >>) :
        omitted \in { {}, { "countryName" }, { "productType" }, { "name", "companyName" } } }

\* The page ids a caller can name: those of the pages created, and one more.
PageIdsToName == 1..(Len(notionPages) + 1)

DownstreamNext ==
    \/ ScrapeFirstPage
    \/ Tick
    \/ \E p \in Procs, args \in DownstreamRequests : SaveStart(p, args)
    \/ \E p \in Procs, h \in HunterOutcomes : SaveAfterHunter(p, h[1], h[2])
    \/ \E p \in Procs : SaveAfterPost(p)
    \/ \E p \in Procs : SavePostFails(p)
    \/ \E p \in Procs, ok \in BOOLEAN : SaveAfterArchive(p, ok)
    \/ \E p \in Procs, ok \in BOOLEAN : SaveAfterIndex(p, ok)
    \/ \E p \in Procs, ok \in BOOLEAN : SaveAfterSubTables(p, ok)
    \/ \E p \in Procs : SaveReturn(p)
    \/ \E id \in PageIdsToName : CreateStart(id)
    \/ \E outcome \in { "matched", "unmatched", "throws" } : CreateAfterCountry(outcome)
    \/ \E outcome \in CreateOutcomes : CreateAfterService(outcome)
    \/ \E ok \in BOOLEAN : CreateAfterLink(ok)
    \/ CreateReturn

DownstreamSpec == Init /\ [][DownstreamNext]_vars

\* ------------------------------------------------- update_brand_index_status

MaxIndexUpdates == 2

IndexFrame ==
    UNCHANGED << now, brandScrapeSessionCache, nextSessionId, distributorCache,
                 catalogLinkCache, imageUrlCache, matterbaseCreatePayloadCache,
                 notionPages, save, savesStarted, productScrapeSessionCache,
                 storeCall, aliasVars, downstreamVars, validateCall, addVars,
                 statusVars >>

\* The "Matterbase ID" property of a Brands page: empty when the page is
\* created, then what executeUpdateBrandNotionMatterbaseId wrote last.
MatterbaseIdOfPage(updates, notionPageId) ==
    LET written == { i \in 1..Len(updates) : updates[i].notionPageId = notionPageId }
    IN  IF written = {} THEN EMPTY
        ELSE updates[CHOOSE i \in written : \A j \in written : j <= i].matterbaseId

\* The Brands pages a query for an Architonic ID can return first: the pages
\* that are not archived and carry the id.
BrandsPagesWith(pages, architonicId) ==
    { i \in 1..Len(pages) : ~pages[i].archived /\ pages[i].architonicId = architonicId }

NotLinked == [ notionPageId |-> 0, matterbaseId |-> EMPTY, linked |-> FALSE ]

\* A link state that takes any Brands page found for a linked one.
LinkStateByPageAlone(pages, updates, page) ==
    IF page = 0 THEN NotLinked
    ELSE [ notionPageId |-> page,
           matterbaseId |-> MatterbaseIdOfPage(updates, page),
           linked       |-> TRUE ]

\* getBrandMatterbaseLinkState, lines 82-105, for results[0] = page (0: no result).
getBrandMatterbaseLinkState(pages, updates, page) ==
    IF page = 0 THEN NotLinked
    ELSE [ notionPageId |-> page,
           matterbaseId |-> MatterbaseIdOfPage(updates, page),
           linked       |-> Len(MatterbaseIdOfPage(updates, page)) > 0 ]

IndexStatuses == { "scraped", "failed" }
ArchitonicIds == { "1", "2" }

IndexReturned(c, success, code) ==
    [ c EXCEPT !.pc = "done", !.success = success, !.code = code ]

\* executeUpdateBrandIndexStatus, lines 174-201: for status "scraped" the link
\* state of the Brands page is awaited first, for any other status the index
\* query.
IndexUpdateStart(architonicId, status) ==
    /\ indexCall.pc = "idle"
    /\ indexCallsStarted < MaxIndexUpdates
    /\ indexCallsStarted' = indexCallsStarted + 1
    /\ indexCall' = [ pc           |-> IF status = "scraped" THEN "awaitLinkState"
                                       ELSE "awaitIndexQuery",
                      architonicId |-> architonicId,
                      status       |-> status,
                      linkState    |-> NotLinked,
                      pageId       |-> 0,
                      success      |-> FALSE,
                      code         |-> "" ]
    /\ UNCHANGED brandIndex
    /\ IndexFrame

\* Lines 183-200: the Brands query has thrown, or has returned page as its
\* first result (0: no result).
IndexAfterLinkState(throws, page) ==
    LET c     == indexCall
        state == getBrandMatterbaseLinkState(notionPages, matterbaseIdUpdates, page)
    IN  /\ c.pc = "awaitLinkState"
        /\ page \in BrandsPagesWith(notionPages, c.architonicId)
                    \cup (IF BrandsPagesWith(notionPages, c.architonicId) = {}
                          THEN { 0 } ELSE {})
        /\ indexCall' =
             IF throws THEN IndexReturned(c, FALSE, "")
             ELSE IF ~state.linked
             THEN IndexReturned([ c EXCEPT !.linkState = state ], FALSE,
                                "SCRAPED_STATUS_REQUIRES_MATTERBASE_ID")
             ELSE [ c EXCEPT !.pc = "awaitIndexQuery", !.linkState = state ]
        /\ UNCHANGED << brandIndex, indexCallsStarted >>
        /\ IndexFrame

\* Lines 203-218: the index query has thrown, or has returned the entries with
\* the Architonic ID; the first of them is the one to patch.
IndexAfterQuery(throws) ==
    LET c == indexCall
    IN  /\ c.pc = "awaitIndexQuery"
        /\ indexCall' =
             IF throws \/ IndexPositions(brandIndex, c.architonicId) = {}
             THEN IndexReturned(c, FALSE, "")
             ELSE [ c EXCEPT !.pc = "awaitPatch",
                             !.pageId = FirstIndexPosition(brandIndex, c.architonicId) ]
        /\ UNCHANGED << brandIndex, indexCallsStarted >>
        /\ IndexFrame

\* Lines 220-240: API-patch-page has returned (ok) or thrown.
IndexAfterPatch(ok) ==
    LET c == indexCall
    IN  /\ c.pc = "awaitPatch"
        /\ brandIndex' = IF ok THEN [ brandIndex EXCEPT ![c.pageId].status = c.status ]
                         ELSE brandIndex
        /\ indexCall' = IndexReturned(c, ok, "")
        /\ UNCHANGED indexCallsStarted
        /\ IndexFrame

IndexUpdateReturn ==
    /\ indexCall.pc = "done"
    /\ indexCall' = NoIndexCall
    /\ UNCHANGED << brandIndex, indexCallsStarted >>
    /\ IndexFrame

\* Requests for the first brand page: complete, and without name and company
\* name, which save_brand_to_notion rolls back.
IndexRequests ==
    { SaveRequest(1, Url1, {}, omitted, << >>) :
        omitted \in { {}, { "name", "companyName" } } }

IndexNext ==
    \/ ScrapeFirstPage
    \/ \E p \in Procs, args \in IndexRequests : SaveStart(p, args)
    \/ \E p \in Procs, h \in HunterOutcomes : SaveAfterHunter(p, h[1], h[2])
    \/ \E p \in Procs : SaveAfterPost(p)
    \/ \E p \in Procs : SavePostFails(p)
    \/ \E p \in Procs, ok \in BOOLEAN : SaveAfterArchive(p, ok)
    \/ \E p \in Procs, ok \in BOOLEAN : SaveAfterIndex(p, ok)
    \/ \E p \in Procs, ok \in BOOLEAN : SaveAfterSubTables(p, ok)
    \/ \E p \in Procs : SaveReturn(p)
    \/ \E id \in PageIdsToName : CreateStart(id)
    \/ \E outcome \in { "matched", "unmatched", "throws" } : CreateAfterCountry(outcome)
    \/ \E outcome \in CreateOutcomes : CreateAfterService(outcome)
    \/ \E ok \in BOOLEAN : CreateAfterLink(ok)
    \/ CreateReturn
    \/ \E id \in ArchitonicIds, status \in IndexStatuses : IndexUpdateStart(id, status)
    \/ \E throws \in BOOLEAN, page \in 0..Len(notionPages) : IndexAfterLinkState(throws, page)
    \/ \E throws \in BOOLEAN : IndexAfterQuery(throws)
    \/ \E ok \in BOOLEAN : IndexAfterPatch(ok)
    \/ IndexUpdateReturn

IndexSpec == Init /\ [][IndexNext]_vars

\* ----------------------------------------------------- add_brands_to_index

MaxAddCalls == 3
MaxBatch == 2

AddFrame ==
    UNCHANGED << now, brandScrapeSessionCache, nextSessionId, distributorCache,
                 catalogLinkCache, imageUrlCache, matterbaseCreatePayloadCache,
                 notionPages, save, savesStarted, productScrapeSessionCache,
                 storeCall, aliasVars, downstreamVars, validateCall, indexVars,
                 statusVars >>

\* args.brands by the Architonic IDs of its brands: up to MaxBatch brands,
\* with and without a repeated id.
Batches ==
    { << >> } \cup { << a >> : a \in ArchitonicIds }
              \cup { << a, b >> : a \in ArchitonicIds, b \in ArchitonicIds }

\* The loop goes on with the next brand, or the call returns after the last.
NextBrand(c) ==
    IF c.i = Len(c.brands) THEN [ c EXCEPT !.pc = "done" ]
    ELSE [ c EXCEPT !.pc = "awaitQuery", !.i = c.i + 1 ]

\* executeAddBrandsToIndex, lines 249-280: an empty batch returns at once,
\* otherwise the query for the first brand is awaited.
AddStart(p, brands) ==
    /\ addCall[p].pc = "idle"
    /\ Len(brands) <= MaxBatch
    /\ addCallsStarted < MaxAddCalls
    /\ addCallsStarted' = addCallsStarted + 1
    /\ addCall' = [ addCall EXCEPT ![p] =
         [ pc      |-> IF brands = << >> THEN "done" ELSE "awaitQuery",
           brands  |-> brands,
           i       |-> 1,
           success |-> brands # << >>,
           added   |-> 0,
           skipped |-> 0,
           failed  |-> 0 ] ]
    /\ UNCHANGED brandIndex
    /\ AddFrame

\* Lines 273-285 and 312-317: the query for brand i has thrown, or has
\* returned the entries with its Architonic ID.
AddAfterQuery(p, throws) ==
    LET c == addCall[p]
    IN  /\ c.pc = "awaitQuery"
        /\ addCall' = [ addCall EXCEPT ![p] =
             IF throws THEN NextBrand([ c EXCEPT !.failed = c.failed + 1 ])
             ELSE IF IndexPositions(brandIndex, c.brands[c.i]) # {}
             THEN NextBrand([ c EXCEPT !.skipped = c.skipped + 1 ])
             ELSE [ c EXCEPT !.pc = "awaitPost" ] ]
        /\ UNCHANGED << brandIndex, addCallsStarted >>
        /\ AddFrame

\* Lines 287-317: API-post-page for brand i has returned (ok) or thrown.
AddAfterPost(p, ok) ==
    LET c == addCall[p]
    IN  /\ c.pc = "awaitPost"
        /\ brandIndex' = IF ok THEN Append(brandIndex, IndexEntry(c.brands[c.i], "pending"))
                         ELSE brandIndex
        /\ addCall' = [ addCall EXCEPT ![p] =
             IF ok THEN NextBrand([ c EXCEPT !.added = c.added + 1 ])
             ELSE NextBrand([ c EXCEPT !.failed = c.failed + 1 ]) ]
        /\ UNCHANGED addCallsStarted
        /\ AddFrame

\* Lines 320-324.
AddReturn(p) ==
    /\ addCall[p].pc = "done"
    /\ addCall' = [ addCall EXCEPT ![p] = NoAddCall ]
    /\ UNCHANGED << brandIndex, addCallsStarted >>
    /\ AddFrame

AddNext ==
    \/ \E p \in AddCallers, brands \in Batches : AddStart(p, brands)
    \/ \E p \in AddCallers, throws \in BOOLEAN : AddAfterQuery(p, throws)
    \/ \E p \in AddCallers, ok \in BOOLEAN : AddAfterPost(p, ok)
    \/ \E p \in AddCallers : AddReturn(p)

AddSpec == Init /\ [][AddNext]_vars

\* ------------------------------------------------------------ status message

MaxStatusCalls == 3
MaxStatusTime == 4500
StatusStep == 500

StatusFrame ==
    UNCHANGED << now, brandScrapeSessionCache, nextSessionId, distributorCache,
                 catalogLinkCache, imageUrlCache, matterbaseCreatePayloadCache,
                 notionPages, brandIndex, save, savesStarted,
                 productScrapeSessionCache, storeCall, aliasVars, downstreamVars,
                 validateCall, indexVars, addVars >>

\* A tool with a display name and one without.
StatusTools == { "Read", "Notion" }

\* TOOL_DISPLAY_NAMES[toolName] ?? `Using ${toolName}` (line 136).
DisplayName(toolName) ==
    IF toolName = "Read" THEN << "Reading file" >> ELSE << "Using", toolName >>

MaxShown == 4

\* completed.slice(-maxShown)
LastShown(completed) ==
    IF Len(completed) > MaxShown
    THEN SubSeq(completed, Len(completed) - MaxShown + 1, Len(completed))
    ELSE completed

\* formatStatusText, lines 58-77: the lines of the text.
formatStatusText(state) ==
    (IF state.thinkingText THEN << << "Thinking" >> >> ELSE << >>)
    \o (IF Len(state.completedTools) > MaxShown
        THEN << << "more", Len(state.completedTools) - MaxShown >> >> ELSE << >>)
    \o [ i \in 1..Len(LastShown(state.completedTools)) |->
           << "done" >> \o LastShown(state.completedTools)[i] ]
    \o (IF state.currentTool # "" THEN << << "current" >> \o DisplayName(state.currentTool) >>
        ELSE << >>)

EditCall(messageId, text, by) ==
    [ at |-> statusNow, messageId |-> messageId, text |-> text, by |-> by ]

\* sendOrEditStatus, lines 80-122, up to its await or its return: state is the
\* StatusState as the handler has left it.
sendOrEditStatus(p, state) ==
    LET text    == formatStatusText(state)
        elapsed == statusNow - state.lastEditTime
    IN  IF state.messageId = NULL
        THEN /\ statusState' = state
             /\ handler' = [ handler EXCEPT ![p] = [ pc |-> "awaitSend" ] ]
             /\ UNCHANGED editCalls
        ELSE IF elapsed >= MIN_EDIT_INTERVAL
        THEN /\ statusState' = state
             /\ editCalls' = Append(editCalls, EditCall(state.messageId, text, "handler"))
             /\ handler' = [ handler EXCEPT ![p] = [ pc |-> "awaitEdit" ] ]
        ELSE /\ statusState' =
                  [ state EXCEPT !.pendingText = text,
                                 !.debounceTimer =
                                     IF @ = NULL
                                     THEN statusNow + (MIN_EDIT_INTERVAL - elapsed)
                                     ELSE @ ]
             /\ handler' = [ handler EXCEPT ![p] = NoHandlerCall ]
             /\ UNCHANGED editCalls

\* A handler is called while the response is not final.
HandlerCalled(p) ==
    /\ handler[p].pc = "idle"
    /\ cleanup.pc # "done"
    /\ handlerCallsStarted < MaxStatusCalls
    /\ handlerCallsStarted' = handlerCallsStarted + 1
    /\ UNCHANGED << statusNow, cleanup, timerEdits, sentMessages, deleteRequests >>
    /\ StatusFrame

\* handleToolUse, lines 124-140.
handleToolUse(p, toolName) ==
    /\ HandlerCalled(p)
    /\ sendOrEditStatus(p,
         [ statusState EXCEPT
             !.completedTools = IF statusState.currentTool # ""
                                THEN Append(@, DisplayName(statusState.currentTool))
                                ELSE @,
             !.currentTool = toolName ])

\* handleThinking, lines 142-154.
handleThinking(p) ==
    /\ HandlerCalled(p)
    /\ sendOrEditStatus(p, [ statusState EXCEPT !.thinkingText = TRUE ])

\* Lines 89-93: sendStatusMessage has returned the id of the message it sent,
\* or null when it could not send.
SendResolves(p, ok) ==
    /\ handler[p].pc = "awaitSend"
    /\ sentMessages' = IF ok THEN sentMessages + 1 ELSE sentMessages
    /\ statusState' = [ statusState EXCEPT
                          !.messageId = IF ok THEN sentMessages + 1 ELSE NULL,
                          !.lastEditTime = statusNow ]
    /\ handler' = [ handler EXCEPT ![p] = NoHandlerCall ]
    /\ UNCHANGED << statusNow, handlerCallsStarted, cleanup, timerEdits,
                    deleteRequests, editCalls >>
    /\ StatusFrame

\* Lines 98-104: editMessage has returned.
EditResolves(p) ==
    /\ handler[p].pc = "awaitEdit"
    /\ statusState' = [ statusState EXCEPT !.lastEditTime = statusNow,
                                           !.debounceTimer = NULL ]
    /\ handler' = [ handler EXCEPT ![p] = NoHandlerCall ]
    /\ UNCHANGED << statusNow, handlerCallsStarted, cleanup, timerEdits,
                    sentMessages, deleteRequests, editCalls >>
    /\ StatusFrame

\* Lines 109-119: the debounce callback runs, no earlier than its delay.
TimerFires ==
    LET edits == statusState.pendingText # << >> /\ statusState.messageId # NULL
    IN  /\ statusState.debounceTimer # NULL
        /\ statusNow >= statusState.debounceTimer
        /\ statusState' = [ statusState EXCEPT !.debounceTimer = NULL ]
        /\ editCalls' = IF edits
                        THEN Append(editCalls, EditCall(statusState.messageId,
                                                        statusState.pendingText, "timer"))
                        ELSE editCalls
        /\ timerEdits' = IF edits THEN Append(timerEdits, statusState.pendingText)
                         ELSE timerEdits
        /\ UNCHANGED << statusNow, handler, handlerCallsStarted, cleanup,
                        sentMessages, deleteRequests >>
        /\ StatusFrame

\* Lines 112-117: the edit of the callback has returned (then) or thrown (catch).
TimerEditResolves(i, ok) ==
    /\ i \in 1..Len(timerEdits)
    /\ timerEdits' = [ j \in 1..(Len(timerEdits) - 1) |->
                         IF j < i THEN timerEdits[j] ELSE timerEdits[j + 1] ]
    /\ statusState' = IF ok THEN [ statusState EXCEPT !.lastEditTime = statusNow,
                                                      !.pendingText = << >> ]
                      ELSE statusState
    /\ UNCHANGED << statusNow, handler, handlerCallsStarted, cleanup,
                    sentMessages, deleteRequests, editCalls >>
    /\ StatusFrame

\* Lines 173-175.
ToolsCleared(state) ==
    [ state EXCEPT !.completedTools = << >>, !.currentTool = "", !.thinkingText = FALSE ]

\* cleanupStatusMessage, lines 156-165: the timer is cleared; with a message
\* id the delete is awaited, without one the call completes.
CleanupStart ==
    LET state == [ statusState EXCEPT !.debounceTimer = NULL ]
    IN  /\ cleanup.pc = "idle"
        /\ IF state.messageId # NULL
           THEN /\ cleanup' = [ pc |-> "awaitDelete", messageId |-> state.messageId ]
                /\ statusState' = state
           ELSE /\ cleanup' = [ pc |-> "done" ]
                /\ statusState' = ToolsCleared(state)
        /\ UNCHANGED << statusNow, handler, handlerCallsStarted, timerEdits,
                        sentMessages, deleteRequests, editCalls >>
        /\ StatusFrame

\* Lines 166-176: deleteMessage has returned, the message deleted (ok) or not.
CleanupAfterDelete(ok) ==
    /\ cleanup.pc = "awaitDelete"
    /\ deleteRequests' = Append(deleteRequests,
                                [ messageId |-> cleanup.messageId, ok |-> ok ])
    /\ statusState' = ToolsCleared([ statusState EXCEPT !.messageId = NULL ])
    /\ cleanup' = [ pc |-> "done" ]
    /\ UNCHANGED << statusNow, handler, handlerCallsStarted, timerEdits,
                    sentMessages, editCalls >>
    /\ StatusFrame

\* Time passes.
StatusTick ==
    /\ statusNow < MaxStatusTime
    /\ statusNow' = statusNow + StatusStep
    /\ UNCHANGED << statusState, handler, handlerCallsStarted, cleanup, timerEdits,
                    sentMessages, deleteRequests, editCalls >>
    /\ StatusFrame

StatusNext ==
    \/ \E p \in StatusCallers, toolName \in StatusTools : handleToolUse(p, toolName)
    \/ \E p \in StatusCallers : handleThinking(p)
    \/ \E p \in StatusCallers, ok \in BOOLEAN : SendResolves(p, ok)
    \/ \E p \in StatusCallers : EditResolves(p)
    \/ TimerFires
    \/ \E i \in 1..MaxStatusCalls, ok \in BOOLEAN : TimerEditResolves(i, ok)
    \/ CleanupStart
    \/ \E ok \in BOOLEAN : CleanupAfterDelete(ok)
    \/ StatusTick

StatusSpec == Init /\ [][StatusNext]_vars

\* The event loop runs a timer callback that is due, the requests of the
\* channel return (its methods catch what the Telegram API throws), and time
\* passes.
StatusFairness ==
    /\ WF_vars(TimerFires)
    /\ WF_vars(StatusTick)
    /\ \A p \in StatusCallers : WF_vars(EditResolves(p))
    /\ \A p \in StatusCallers : WF_vars(\E ok \in BOOLEAN : SendResolves(p, ok))
    /\ WF_vars(\E i \in 1..MaxStatusCalls, ok \in BOOLEAN : TimerEditResolves(i, ok))

StatusFairSpec == StatusSpec /\ StatusFairness

\* ------------------------------------------------------ validate_brand_data

\* The contact fields executeValidateBrandData compares, and the field of the
\* proposed record each is compared with.
GroundTruthKeys ==
    { "phone", "email", "street", "city", "zip", "lat", "lng", "website",
      "facebook", "instagram", "pinterest" }

TargetKey(sourceKey) ==
    CASE sourceKey = "zip" -> "postalCode"
      [] sourceKey = "lat" -> "latitude"
      [] sourceKey = "lng" -> "longitude"
      [] OTHER -> sourceKey

TargetKeys == { TargetKey(k) : k \in GroundTruthKeys } \cup { "contactEmail" }

MaxGroundTruthFields == 2
MaxFieldsDropped == 2

SomeValue == << "v" >>

\* Ground truths with up to MaxGroundTruthFields contact fields, from a page
\* with or without distributor, logo, og:image, About heading and catalog mentions.
ScrapeResults ==
    { [ contactDetails     |-> [ k \in ContactKeys |->
                                   IF k \in present THEN SomeValue ELSE EMPTY ],
        parsedDistributors |-> IF rich THEN << Dist1(Url1) >> ELSE << >>,
        markdown           |-> IF rich THEN << "#about", "catalog", "catalog" >> ELSE EMPTY,
        metadata           |-> [ ogImage |-> IF rich THEN << "i" >> ELSE EMPTY ],
        extractedImageUrls |-> IF rich THEN [ NoImages EXCEPT !.logoUrl = Logo(Url1) ]
                               ELSE NoImages ] :
        present \in { g \in SUBSET GroundTruthKeys : Cardinality(g) <= MaxGroundTruthFields },
        rich \in BOOLEAN }

\* Proposed records that have every contact field but up to MaxFieldsDropped,
\* or none at all, with or without logo, description, distributors and catalogs.
ProposedRecords ==
    { [ architonicUrl  |-> Url1,
        phone          |-> IF "phone" \in dropped THEN EMPTY ELSE SomeValue,
        email          |-> IF "email" \in dropped THEN EMPTY ELSE SomeValue,
        street         |-> IF "street" \in dropped THEN EMPTY ELSE SomeValue,
        city           |-> IF "city" \in dropped THEN EMPTY ELSE SomeValue,
        postalCode     |-> IF "postalCode" \in dropped THEN EMPTY ELSE SomeValue,
        latitude       |-> IF "latitude" \in dropped THEN EMPTY ELSE SomeValue,
        longitude      |-> IF "longitude" \in dropped THEN EMPTY ELSE SomeValue,
        website        |-> IF "website" \in dropped THEN EMPTY ELSE SomeValue,
        facebook       |-> IF "facebook" \in dropped THEN EMPTY ELSE SomeValue,
        instagram      |-> IF "instagram" \in dropped THEN EMPTY ELSE SomeValue,
        pinterest      |-> IF "pinterest" \in dropped THEN EMPTY ELSE SomeValue,
        contactEmail   |-> IF "contactEmail" \in dropped THEN EMPTY ELSE SomeValue,
        description    |-> IF full THEN SomeValue ELSE EMPTY,
        logoUrl        |-> IF full THEN Logo(Url1) ELSE EMPTY,
        headerImageUrl |-> EMPTY,
        aboutImageUrl  |-> EMPTY,
        distributors   |-> IF full THEN << Dist1(Url1) >> ELSE << >>,
        catalogs       |-> << >> ] :
        dropped \in { d \in SUBSET TargetKeys : Cardinality(d) <= MaxFieldsDropped }
                       \cup { TargetKeys },
        full \in BOOLEAN }

ValidateCalls ==
    { [ pc |-> "called", scrapeResult |-> sr, brandData |-> bd, result |-> NoValidation ] :
        sr \in ScrapeResults, bd \in ProposedRecords }

\* executeValidateBrandData(args) runs and returns its result.
ValidateBrandData ==
    /\ validateCall.pc = "called"
    /\ validateCall' =
         [ validateCall EXCEPT
             !.pc = "returned",
             !.result = executeValidateBrandData(validateCall.scrapeResult,
                            validateCall.brandData,
                            getCachedDistributors(validateCall.brandData.architonicUrl)) ]
    /\ UNCHANGED << now, brandScrapeSessionCache, nextSessionId, distributorCache,
                    catalogLinkCache, imageUrlCache, matterbaseCreatePayloadCache,
                    notionPages, brandIndex, save, savesStarted,
                    productScrapeSessionCache, storeCall, aliasVars, downstreamVars,
                    toolVars >>

ValidateInit ==
    /\ now = 0
    /\ brandScrapeSessionCache = << >>
    /\ nextSessionId = 1
    /\ distributorCache = [ u \in URLs |-> << >> ]
    /\ catalogLinkCache = [ u \in URLs |-> << >> ]
    /\ imageUrlCache = [ u \in URLs |-> NoImages ]
    /\ matterbaseCreatePayloadCache = << >>
    /\ notionPages = << >>
    /\ brandIndex = << IndexEntry("1", "pending") >>
    /\ save = [ p \in Procs |-> Idle ]
    /\ savesStarted = 0
    /\ AuxInit
    /\ validateCall \in ValidateCalls

ValidateNext == ValidateBrandData

ValidateSpec == ValidateInit /\ [][ValidateNext]_vars

\* ------------------------- the brand session store and its callers' objects

\* A snapshot's parsedDistributors and parsedCatalogLinks are arrays of
\* objects. createBrandScrapeSession and getBrandScrapeSession copy the arrays
\* ([...array]) and the contactDetails and extractedImageUrls objects ({...object}),
\* not the objects the arrays hold: here an array is a sequence of heap
\* addresses, and the copy of an array is the same sequence of addresses.

\* The value a caller writes into an object it holds.
Scribble == << "x" >>

\* The snapshot with the objects of its arrays read from the heap h.
Deref(snapshot, h) ==
    LET ds == snapshot.parsedDistributors
        ks == snapshot.parsedCatalogLinks
    IN  [ snapshot EXCEPT
            !.parsedDistributors = [ i \in 1..Len(ds) |-> h[ds[i]] ],
            !.parsedCatalogLinks = [ i \in 1..Len(ks) |-> h[ks[i]] ] ]

AliasFrame ==
    UNCHANGED << distributorCache, catalogLinkCache, imageUrlCache,
                 matterbaseCreatePayloadCache, notionPages, brandIndex, save,
                 savesStarted, productScrapeSessionCache, downstreamVars,
                 validateCall, toolVars >>

\* A caller builds the snapshot input of the page url, with one distributor
\* object and one catalog-link object, and calls createBrandScrapeSession.
ObjCreateBrand(url) ==
    LET d     == Len(heap) + 1
        k     == Len(heap) + 2
        page  == Extraction(url, EmailPlausible, Website, TRUE)
        input == [ architonicUrl |-> url,
                   extraction    |-> [ page EXCEPT !.parsedDistributors = << d >>,
                                                   !.parsedCatalogLinks = << k >> ] ]
    IN  /\ nextSessionId <= MaxScrapes
        /\ heap' = heap \o << Dist1(url), CatalogLink1(url) >>
        /\ brandScrapeSessionCache' =
             createBrandScrapeSession(brandScrapeSessionCache, nextSessionId,
                                      input.architonicUrl, input.extraction, now)
        /\ nextSessionId' = nextSessionId + 1
        /\ callerInput' = input
        /\ created' = Append(created, [ architonicUrl |-> url, extraction |-> page ])
        /\ storeCall' = [ op |-> "create", store |-> "brand", id |-> nextSessionId,
                          at |-> now, before |-> brandScrapeSessionCache,
                          input |-> input ]
        /\ UNCHANGED << now, callerSnapshot >>
        /\ AliasFrame

\* A caller calls getBrandScrapeSession(id) and keeps what it returns.
ObjGetBrand(id) ==
    LET r == getBrandScrapeSession(brandScrapeSessionCache, id, now)
    IN  /\ brandScrapeSessionCache' = r[1]
        /\ callerSnapshot' = r[2]
        /\ storeCall' = [ op |-> "get", store |-> "brand", id |-> id, at |-> now,
                          before |-> brandScrapeSessionCache, result |-> r[2],
                          view |-> IF r[2] = NoSnapshot THEN NoSnapshot
                                   ELSE Deref(r[2], heap) ]
        /\ UNCHANGED << now, nextSessionId, heap, callerInput, created >>
        /\ AliasFrame

\* The object at address a with one of its fields overwritten.
Scribbled(object) ==
    IF "name" \in DOMAIN object THEN [ object EXCEPT !.name = Scribble ]
    ELSE [ object EXCEPT !.filename = Scribble ]

\* The caller assigns to a property of the snapshot it got (its URL, a contact
\* detail), or empties one of its arrays.
MutateReturnedField ==
    /\ callerSnapshot # NoSnapshot
    /\ \E c \in { [ callerSnapshot EXCEPT !.architonicUrl = Scribble ],
                  [ callerSnapshot EXCEPT !.contactDetails["email"] = Scribble ],
                  [ callerSnapshot EXCEPT !.parsedCatalogLinks = << >> ] } :
         callerSnapshot' = c
    /\ UNCHANGED << now, brandScrapeSessionCache, nextSessionId, storeCall, heap,
                    callerInput, created >>
    /\ AliasFrame

\* The caller assigns to a field of a distributor or catalog-link entry of the
\* snapshot it got.
MutateReturnedEntry ==
    /\ callerSnapshot # NoSnapshot
    /\ \E a \in Range(callerSnapshot.parsedDistributors)
                  \cup Range(callerSnapshot.parsedCatalogLinks) :
         heap' = [ heap EXCEPT ![a] = Scribbled(@) ]
    /\ UNCHANGED << now, brandScrapeSessionCache, nextSessionId, storeCall,
                    callerInput, callerSnapshot, created >>
    /\ AliasFrame

\* The caller of create assigns to a property of the input object afterwards.
MutateInputField ==
    /\ callerInput # NoCall
    /\ \E c \in { [ callerInput EXCEPT !.extraction.contactDetails["email"] = Scribble ],
                  [ callerInput EXCEPT !.extraction.parsedDistributors = << >> ] } :
         callerInput' = c
    /\ UNCHANGED << now, brandScrapeSessionCache, nextSessionId, storeCall, heap,
                    callerSnapshot, created >>
    /\ AliasFrame

\* The caller of create assigns to a field of a distributor or catalog-link
\* entry of the input object afterwards.
MutateInputEntry ==
    /\ callerInput # NoCall
    /\ \E a \in Range(callerInput.extraction.parsedDistributors)
                  \cup Range(callerInput.extraction.parsedCatalogLinks) :
         heap' = [ heap EXCEPT ![a] = Scribbled(@) ]
    /\ UNCHANGED << now, brandScrapeSessionCache, nextSessionId, storeCall,
                    callerInput, callerSnapshot, created >>
    /\ AliasFrame

AliasNext ==
    \/ Tick
    \/ \E url \in URLs : ObjCreateBrand(url)
    \/ \E id \in IssuedSessionIds : ObjGetBrand(id)
    \/ MutateReturnedField
    \/ MutateReturnedEntry
    \/ MutateInputField
    \/ MutateInputEntry

AliasSpec == Init /\ [][AliasNext]_vars

\* ---- C11

\* The step is a get of the session that the step before created, at the
\* time of its creation.
GetRightAfterCreate ==
    /\ storeCall.op = "create"
    /\ storeCall'.op = "get"
    /\ storeCall'.store = storeCall.store
    /\ storeCall'.id = storeCall.id
    /\ storeCall'.at = storeCall.at

BrandFragmentsEqual(session, input) ==
    /\ session.architonicUrl = input.architonicUrl
    /\ session.contactDetails = input.extraction.contactDetails
    /\ session.parsedDistributors = input.extraction.parsedDistributors
    /\ session.parsedCatalogLinks = input.extraction.parsedCatalogLinks
    /\ session.extractedImageUrls = input.extraction.extractedImageUrls
    /\ session.markdown = input.extraction.markdown
    /\ session.links = input.extraction.links
    /\ session.metadata = input.extraction.metadata

ProductFragmentsEqual(session, input) ==
    /\ session.url = input.url
    /\ session.productName = input.productName
    /\ session.brandName = input.brandName
    /\ session.markdown = input.markdown
    /\ session.metadata = input.metadata

\* C11: a get of a session right after its creation finds it, and returns the
\* snapshot's source URL, contact details, distributors, catalog links, image
\* URLs, markdown, links and metadata as they were handed to create.
C11_RoundTrip ==
    [][ GetRightAfterCreate =>
          /\ storeCall'.result # NoSnapshot
          /\ storeCall'.result.scrapeSessionId = storeCall.id
          /\ IF storeCall.store = "brand"
             THEN BrandFragmentsEqual(storeCall'.result, storeCall.input)
             ELSE ProductFragmentsEqual(storeCall'.result, storeCall.input) ]_vars

\* A brand session with distributors and links, created into a full store, has
\* just been read back at the time of its creation.
C11_Witness ==
    /\ storeCall.op = "get"
    /\ storeCall.store = "brand"
    /\ storeCall.result # NoSnapshot
    /\ storeCall.result.createdAt = now
    /\ storeCall.result.links # << >>
    /\ storeCall.result.parsedDistributors # << >>
    /\ storeCall.id > 1

\* ---- C12

\* The step is a get on the store named.
GetStep(store) ==
    /\ storeCall'.op = "get"
    /\ storeCall'.store = store
    /\ storeCall'.at = now
    /\ now' = now

\* The entries of cache that are more than ttl old.
ExpiredIn(cache, ttl) == { i \in 1..Len(cache) : now - cache[i].createdAt >= ttl + 1 }

IdsOf(cache) == { cache[i].scrapeSessionId : i \in 1..Len(cache) }

\* A get of an entry more than ttl old reports it missing and removes it; the
\* store shrinks by one when no other entry had expired.
ExpiredEntryRemoved(cache, cacheAfter, ttl) ==
    \A i \in ExpiredIn(cache, ttl) :
        cache[i].scrapeSessionId = storeCall'.id
        => /\ storeCall'.result = NoSnapshot
           /\ storeCall'.id \notin IdsOf(cacheAfter)
           /\ ExpiredIn(cache, ttl) = { i } => Len(cacheAfter) = Len(cache) - 1

\* C12: a get of a session later than its creation time plus the TTL returns
\* not-found and removes the entry from the store, whose size decreases by one
\* when it was the only expired entry.
C12_ExpiredSessionRemovedByGet ==
    [][ /\ GetStep("brand") =>
            ExpiredEntryRemoved(brandScrapeSessionCache, brandScrapeSessionCache',
                                BRAND_SCRAPE_SESSION_TTL_MS)
        /\ GetStep("product") =>
            ExpiredEntryRemoved(productScrapeSessionCache, productScrapeSessionCache',
                                PRODUCT_SCRAPE_SESSION_TTL_MS) ]_vars

\* The get just made found its brand session in the store, one tick past its
\* TTL, and the store is one entry smaller.
C12_Witness ==
    /\ storeCall.op = "get"
    /\ storeCall.store = "brand"
    /\ storeCall.at = now
    /\ storeCall.result = NoSnapshot
    /\ Len(storeCall.before) = 1
    /\ storeCall.before[1].scrapeSessionId = storeCall.id
    /\ storeCall.at - storeCall.before[1].createdAt = BRAND_SCRAPE_SESSION_TTL_MS + 1
    /\ Len(brandScrapeSessionCache) = Len(storeCall.before) - 1

\* ---- C13

\* The step is a create on the store named.
CreateStep(store) ==
    /\ storeCall'.op = "create"
    /\ storeCall'.store = store
    /\ storeCall'.id = nextSessionId
    /\ nextSessionId' = nextSessionId + 1

Min(a, b) == IF a <= b THEN a ELSE b

\* After a create into cache, whose entries not older than ttl are the
\* unexpired ones: the store holds the new session and as many of the
\* unexpired ones as capacity allows, and each one dropped was created no
\* later than each one kept.
EvictsOldest(cache, cacheAfter, capacity, ttl) ==
    LET unexpired == { i \in 1..Len(cache) : now - cache[i].createdAt <= ttl }
        kept      == { i \in unexpired : cache[i].scrapeSessionId \in IdsOf(cacheAfter) }
    IN  /\ Len(cacheAfter) = Min(capacity, Cardinality(unexpired) + 1)
        /\ nextSessionId \in IdsOf(cacheAfter)
        /\ IdsOf(cacheAfter) \subseteq
             { cache[i].scrapeSessionId : i \in unexpired } \cup { nextSessionId }
        /\ \A i \in unexpired \ kept :
             /\ \A j \in kept : cache[i].createdAt <= cache[j].createdAt
             /\ cache[i].createdAt <= now

\* C13: after create returns, a session store never holds more than its
\* capacity; a create into a store with capacity or more unexpired sessions
\* leaves exactly capacity entries, the evicted ones being the oldest-created and
\* the retained ones the most recently created (brand and product store).
C13_CapacityEviction ==
    [][ /\ Len(brandScrapeSessionCache') <= BRAND_SCRAPE_SESSION_MAX_ENTRIES
        /\ Len(productScrapeSessionCache') <= PRODUCT_SCRAPE_SESSION_MAX_ENTRIES
        /\ CreateStep("brand") =>
             EvictsOldest(brandScrapeSessionCache, brandScrapeSessionCache',
                          BRAND_SCRAPE_SESSION_MAX_ENTRIES, BRAND_SCRAPE_SESSION_TTL_MS)
        /\ CreateStep("product") =>
             EvictsOldest(productScrapeSessionCache, productScrapeSessionCache',
                          PRODUCT_SCRAPE_SESSION_MAX_ENTRIES,
                          PRODUCT_SCRAPE_SESSION_TTL_MS) ]_vars

\* The product store has taken capacity + 2 unexpired sessions: its fourth
\* create found the store full of unexpired sessions of different age, one
\* already evicted before, and left the younger one and the new one.
C13_Witness ==
    /\ storeCall.op = "create"
    /\ storeCall.store = "product"
    /\ storeCall.id = PRODUCT_SCRAPE_SESSION_MAX_ENTRIES + 2
    /\ Len(storeCall.before) = PRODUCT_SCRAPE_SESSION_MAX_ENTRIES
    /\ \A i \in 1..Len(storeCall.before) :
         storeCall.at - storeCall.before[i].createdAt <= PRODUCT_SCRAPE_SESSION_TTL_MS
    /\ IdsOf(storeCall.before) = { 2, 3 }
    /\ storeCall.before[1].createdAt < storeCall.before[2].createdAt
    /\ IdsOf(productScrapeSessionCache) = { 3, 4 }
    /\ Len(productScrapeSessionCache) = PRODUCT_SCRAPE_SESSION_MAX_ENTRIES

\* ---- C14

\* C14, as stated: the deferred create-payload cache never holds more than its
\* configured maximum of entries after an insert by a successful save, whatever
\* the sequence of saves and clock advances.
C14_AsStated ==
    Len(matterbaseCreatePayloadCache) <= MATTERBASE_CREATE_PAYLOAD_MAX_ENTRIES

\* ---- C15

\* C15, as stated: a stored session is immutable. Its source URL is the one it
\* was created with, and whatever a caller has done to a snapshot a get
\* returned, to the entries of its arrays or to the input object of create, a
\* get of the session returns it as it was created.
C15_AsStated ==
    /\ \A i \in 1..Len(brandScrapeSessionCache) :
         brandScrapeSessionCache[i].architonicUrl =
           created[brandScrapeSessionCache[i].scrapeSessionId].architonicUrl
    /\ storeCall.op = "get" /\ storeCall.result # NoSnapshot
       => BrandFragmentsEqual(storeCall.view, created[storeCall.id])

\* ---- C16

\* The step is the first of a matterbase_create_brand call.
CreateStartStep == mbCreate.pc = "idle" /\ mbCreate'.pc # "idle"

\* The entries of the payload cache for the page named that are past the TTL.
ExpiredPayloadsFor(notionPageId) ==
    { i \in 1..Len(matterbaseCreatePayloadCache) :
        /\ matterbaseCreatePayloadCache[i].notionPageId = notionPageId
        /\ now - matterbaseCreatePayloadCache[i].savedAt
             >= MATTERBASE_CREATE_PAYLOAD_TTL_MS + 1 }

\* C16: a deferred payload is read by its record identifier only within the
\* payload TTL of its savedAt; a read after that finds nothing and removes the
\* entry, and the downstream creation for that identifier returns
\* MISSING_SAVED_NOTION_SOURCE without a call to the creation service.
C16_PayloadReadOnlyWithinTtl ==
    [][ CreateStartStep =>
          /\ mbCreate'.payload # NoPayload =>
               /\ mbCreate'.payload.notionPageId = mbCreate'.notionPageId
               /\ now - mbCreate'.payload.savedAt <= MATTERBASE_CREATE_PAYLOAD_TTL_MS
          /\ ExpiredPayloadsFor(mbCreate'.notionPageId) # {} =>
               /\ mbCreate'.payload = NoPayload
               /\ mbCreate'.notionPageId \notin PayloadPageIds(matterbaseCreatePayloadCache')
               /\ mbCreate'.pc = "done"
               /\ mbCreate'.code = "MISSING_SAVED_NOTION_SOURCE"
               /\ matterbaseCalls' = matterbaseCalls ]_vars

\* A creation call for a page whose payload was in the cache, past its TTL, has
\* returned MISSING_SAVED_NOTION_SOURCE; the entry is gone.
C16_Witness ==
    /\ mbCreate.pc = "done"
    /\ mbCreate.code = "MISSING_SAVED_NOTION_SOURCE"
    /\ mbCreate.at = now
    /\ \E i \in 1..Len(mbCreate.before) :
         /\ mbCreate.before[i].notionPageId = mbCreate.notionPageId
         /\ mbCreate.at - mbCreate.before[i].savedAt = MATTERBASE_CREATE_PAYLOAD_TTL_MS + 1
    /\ mbCreate.notionPageId \notin PayloadPageIds(matterbaseCreatePayloadCache)
    /\ matterbaseCalls = << >>

\* ---- C17

\* The step is the return of caller p's POST /pages request with the new page.
PostReturnStep(p) == save[p].pc = "awaitPost" /\ save'[p].pageId # 0

UnexpiredPayloads ==
    { i \in 1..Len(matterbaseCreatePayloadCache) :
        now - matterbaseCreatePayloadCache[i].savedAt <= MATTERBASE_CREATE_PAYLOAD_TTL_MS }

\* Two calls that named the same session and both stored a payload.
StoredForSameSession ==
    { pq \in Stored \X Stored :
        /\ pq[1] # pq[2]
        /\ save[pq[1]].args.scrapeSessionId = save[pq[2]].args.scrapeSessionId }

\* C17: saves that name the same session are not excluded from one another,
\* and none replaces the other's payload: each save gets a record identifier
\* that no cache entry and no other call has, stores its payload under it, and
\* leaves the unexpired entries of the others in the cache (as long as they
\* are no more than the maximum).
C17_EachSaveItsOwnEntry ==
    [][ \A p \in DOMAIN save :
          PostReturnStep(p) =>
            /\ save'[p].pageId \notin PayloadPageIds(matterbaseCreatePayloadCache)
            /\ \A q \in DOMAIN save \ { p } :
                 save[q].pc # "idle" => save[q].pageId # save'[p].pageId
            /\ Cardinality(UnexpiredPayloads) <= MATTERBASE_CREATE_PAYLOAD_MAX_ENTRIES
               => \A i \in UnexpiredPayloads :
                    matterbaseCreatePayloadCache[i] \in Range(matterbaseCreatePayloadCache')
            /\ ~RolledBack(save'[p])
               => save'[p].payload \in Range(matterbaseCreatePayloadCache') ]_vars

\* Two saves of the same session are in flight after their inserts, with
\* different payloads under different record identifiers, both in the cache.
C17_Witness ==
    \E pq \in StoredForSameSession :
        LET l == save[pq[1]]
            m == save[pq[2]]
        IN  /\ l.pc = "awaitSubTables" /\ m.pc = "awaitSubTables"
            /\ l.pageId # m.pageId
            /\ l.payload.countryName # m.payload.countryName
            /\ l.payload \in Range(matterbaseCreatePayloadCache)
            /\ m.payload \in Range(matterbaseCreatePayloadCache)
            /\ Len(notionPages) = 2

\* C17 as stated: of two saves of the same session that both stored a payload,
\* the second wrote under the record identifier of the first and replaced its
\* entry, so the cache holds one entry for the two.
C17_AsStated ==
    \A pq \in StoredForSameSession :
        /\ save[pq[1]].pageId = save[pq[2]].pageId
        /\ Cardinality({ i \in 1..Len(matterbaseCreatePayloadCache) :
                matterbaseCreatePayloadCache[i].notionPageId
                  \in { save[pq[1]].pageId, save[pq[2]].pageId } }) <= 1

\* ---- C18

\* The session the request names is in the store, not older than the TTL, and
\* recorded for the request's URL.
SessionValidNow(args) ==
    \E i \in LiveSessions(args.scrapeSessionId) :
        brandScrapeSessionCache[i].architonicUrl = args.architonicUrl

\* The step in which caller p issues its POST /pages request.
PersistStep(p) == save[p].pc \notin PersistIssued /\ save'[p].pc \in PersistIssued

\* C18: the session a save references is valid when the save looks it up, at
\* its start: it is in the store, not older than the TTL, its URL matches, and
\* the snapshot the save works on is that entry. The save that issues its POST
\* request, after the contact-discovery lookup, does so with that snapshot, and
\* the page created carries the snapshot's session id and URL.
C18_SessionValidAtLookup ==
    [][ \A p \in DOMAIN save :
          /\ StartStep(p) /\ save'[p].pc = "awaitHunter"
             => /\ SessionValidNow(save'[p].args)
                /\ \E i \in LiveSessions(save'[p].args.scrapeSessionId) :
                     brandScrapeSessionCache[i] = save'[p].snapshot
                /\ save'[p].snapshot \in Range(brandScrapeSessionCache')
          /\ PersistStep(p)
             => /\ save[p].pc = "awaitHunter"
                /\ save'[p].snapshot = save[p].snapshot
                /\ save[p].snapshot.scrapeSessionId = save[p].args.scrapeSessionId
                /\ save[p].snapshot.architonicUrl = save[p].args.architonicUrl
          /\ save[p].pc = "awaitPost" /\ save'[p].pageId # 0
             => /\ notionPages'[save'[p].pageId].scrapeSessionId
                     = save[p].snapshot.scrapeSessionId
                /\ notionPages'[save'[p].pageId].architonicUrl
                     = save[p].snapshot.architonicUrl ]_vars

\* A save issued its POST request and created its page while its session was
\* no longer in the store or past its TTL.
C18_Witness ==
    \E p \in Persisted :
        /\ ~SessionValidNow(save[p].args)
        /\ save[p].payload.savedAt = now
        /\ notionPages[save[p].pageId].scrapeSessionId = save[p].args.scrapeSessionId

\* C18 as stated: at the moment a save issues its POST request the session it
\* references is in the store, not older than the TTL, with the request's URL.
C18_AsStated ==
    [][ \A p \in DOMAIN save : PersistStep(p) => SessionValidNow(save[p].args) ]_vars

\* ---- C19

\* The number of issues of the severity named.
Tally(issues, severity) ==
    Cardinality({ i \in 1..Len(issues) : issues[i].severity = severity })

\* C19: for every ground truth and proposed record, the result is valid exactly
\* when its errorCount is 0, errorCount and warningCount are the numbers of
\* issues of severity error and warning, and together they are the number of
\* issues.
C19_TalliesConsistent ==
    validateCall.pc = "returned"
    => LET r == validateCall.result
       IN  /\ r.valid <=> r.errorCount = 0
           /\ r.errorCount = Tally(r.issues, "error")
           /\ r.warningCount = Tally(r.issues, "warning")
           /\ r.errorCount + r.warningCount = Len(r.issues)

\* A validation has returned with errors and warnings.
C19_Witness ==
    /\ validateCall.pc = "returned"
    /\ validateCall.result.errorCount >= 2
    /\ validateCall.result.warningCount >= 2
    /\ ~validateCall.result.valid

\* ---- C20

ErrorIssuesOf(r, field) ==
    { i \in 1..Len(r.issues) :
        r.issues[i].field = field /\ r.issues[i].severity = "error"
        /\ r.issues[i].kind = "missing" }

\* C20: for each of phone, street, city, zip, lat, lng, website, facebook,
\* instagram and pinterest, a ground-truth value with an empty or absent field
\* of the proposed record gives an error for that field, errorCount >= 1 and
\* valid = false; the email error is raised exactly when the ground truth has
\* an email and the proposed email and contactEmail are both empty or absent.
C20_ErrorFloor ==
    validateCall.pc = "returned"
    => LET r  == validateCall.result
           gt == validateCall.scrapeResult.contactDetails
           bd == validateCall.brandData
       IN  /\ \A k \in GroundTruthKeys \ { "email" } :
                gt[k] # EMPTY /\ bd[TargetKey(k)] = EMPTY
                => /\ r.errorCount >= 1
                   /\ ~r.valid
                   /\ ErrorIssuesOf(r, TargetKey(k)) # {}
           /\ ErrorIssuesOf(r, "email") # {}
              <=> gt["email"] # EMPTY /\ bd["email"] = EMPTY /\ bd["contactEmail"] = EMPTY
           /\ ErrorIssuesOf(r, "email") # {} => r.errorCount >= 1 /\ ~r.valid

\* A record proposed without the postal code the ground truth has, and with a
\* contactEmail for the ground truth's email, has one error, for the postal code.
C20_Witness ==
    /\ validateCall.pc = "returned"
    /\ validateCall.scrapeResult.contactDetails["zip"] # EMPTY
    /\ validateCall.scrapeResult.contactDetails["email"] # EMPTY
    /\ validateCall.brandData["postalCode"] = EMPTY
    /\ validateCall.brandData["email"] = EMPTY
    /\ validateCall.brandData["contactEmail"] # EMPTY
    /\ validateCall.result.errorCount = 1
    /\ ~validateCall.result.valid

\* ------------------------------------- validate_brand_data: the image URLs

HeaderImage == << "h", "1" >>
AboutImage  == << "a", "1" >>

\* Ground truths with and without logo, header image, about image, og:image
\* and phone number.
ImageScrapeResults ==
    { [ contactDetails     |-> [ NoContact EXCEPT !["phone"] = phone ],
        parsedDistributors |-> << >>,
        markdown           |-> EMPTY,
        metadata           |-> [ ogImage |-> og ],
        extractedImageUrls |-> [ logoUrl |-> logo, headerImageUrl |-> header,
                                 aboutImageUrl |-> about ] ] :
        phone \in { EMPTY, SomeValue },
        og \in { EMPTY, << "i" >> },
        logo \in { EMPTY, Logo(Url1) },
        header \in { EMPTY, HeaderImage },
        about \in { EMPTY, AboutImage } }

\* Proposed records whose image URLs are absent, the ground truth's, another
\* page's, or the ground truth's with a trailing slash.
ImageProposedRecords ==
    { [ architonicUrl  |-> Url1,
        phone          |-> phone,
        email          |-> SomeValue,
        street         |-> SomeValue,
        city           |-> SomeValue,
        postalCode     |-> SomeValue,
        latitude       |-> SomeValue,
        longitude      |-> SomeValue,
        website        |-> SomeValue,
        facebook       |-> SomeValue,
        instagram      |-> SomeValue,
        pinterest      |-> SomeValue,
        contactEmail   |-> SomeValue,
        description    |-> SomeValue,
        logoUrl        |-> logo,
        headerImageUrl |-> header,
        aboutImageUrl  |-> about,
        distributors   |-> << >>,
        catalogs       |-> << >> ] :
        phone \in { EMPTY, SomeValue },
        logo \in { EMPTY, Logo(Url1), Logo(Url2), Append(Logo(Url1), "/") },
        header \in { EMPTY, HeaderImage, Append(HeaderImage, "/") },
        about \in { EMPTY, AboutImage, Append(AboutImage, "/") } }

ImageCalls ==
    { [ pc |-> "called", scrapeResult |-> sr, brandData |-> bd, result |-> NoValidation ] :
        sr \in ImageScrapeResults, bd \in ImageProposedRecords }

\* The module's state before any scrape or save, with empty extract caches.
NothingScrapedYet ==
    /\ now = 0
    /\ brandScrapeSessionCache = << >>
    /\ nextSessionId = 1
    /\ catalogLinkCache = [ u \in URLs |-> << >> ]
    /\ imageUrlCache = [ u \in URLs |-> NoImages ]
    /\ matterbaseCreatePayloadCache = << >>
    /\ notionPages = << >>
    /\ brandIndex = << IndexEntry("1", "pending") >>
    /\ save = [ p \in Procs |-> Idle ]
    /\ savesStarted = 0

ImageInit ==
    /\ NothingScrapedYet
    /\ distributorCache = [ u \in URLs |-> << >> ]
    /\ AuxInit
    /\ validateCall \in ImageCalls

ImageSpec == ImageInit /\ [][ValidateNext]_vars

\* ---- C21

IssuesOf(r, field, severity) ==
    { i \in 1..Len(r.issues) : r.issues[i].field = field /\ r.issues[i].severity = severity }

\* The proposed record with the ground truth's header and about image URLs
\* wherever the ground truth has them.
WithGroundTruthHeaderAndAbout(brandData, extracted) ==
    [ brandData EXCEPT
        !["headerImageUrl"] = IF extracted.headerImageUrl # EMPTY
                              THEN extracted.headerImageUrl ELSE @,
        !["aboutImageUrl"]  = IF extracted.aboutImageUrl # EMPTY
                              THEN extracted.aboutImageUrl ELSE @ ]

\* C21: when the ground truth has a logo URL, the result has an error for
\* logoUrl exactly when the proposed logoUrl is absent or differs from it; a
\* ground-truth header or about image URL that the proposed record lacks or
\* differs from gives a warning for that field, no issue for these two fields
\* is an error, and valid and errorCount are what they are for the record
\* that carries the ground truth's header and about image URLs.
C21_LogoErrorImagesWarn ==
    validateCall.pc = "returned"
    => LET r  == validateCall.result
           gt == validateCall.scrapeResult.extractedImageUrls
           bd == validateCall.brandData
           fixed == executeValidateBrandData(validateCall.scrapeResult,
                        WithGroundTruthHeaderAndAbout(bd, gt),
                        getCachedDistributors(bd.architonicUrl))
       IN  /\ gt.logoUrl # EMPTY
              => (IssuesOf(r, "logoUrl", "error") # {}
                  <=> (bd.logoUrl = EMPTY \/ bd.logoUrl # gt.logoUrl))
           /\ \A f \in { "headerImageUrl", "aboutImageUrl" } :
                /\ IssuesOf(r, f, "error") = {}
                /\ gt[f] # EMPTY /\ (bd[f] = EMPTY \/ bd[f] # gt[f])
                   => IssuesOf(r, f, "warning") # {}
           /\ r.valid = fixed.valid
           /\ r.errorCount = fixed.errorCount

\* A record proposed with the logo URL plus a trailing slash, another header
\* image and no about image: one error, for the logo, and the warnings.
C21_Witness ==
    /\ validateCall.pc = "returned"
    /\ validateCall.scrapeResult.extractedImageUrls.logoUrl = Logo(Url1)
    /\ validateCall.brandData.logoUrl = Append(Logo(Url1), "/")
    /\ validateCall.scrapeResult.extractedImageUrls.headerImageUrl = HeaderImage
    /\ validateCall.brandData.headerImageUrl = Append(HeaderImage, "/")
    /\ validateCall.scrapeResult.extractedImageUrls.aboutImageUrl = AboutImage
    /\ validateCall.brandData.aboutImageUrl = EMPTY
    /\ validateCall.result.errorCount = 1
    /\ validateCall.result.warningCount = 2
    /\ ~validateCall.result.valid

\* ----------------------------------- validate_brand_data: the distributors

NameTokens == << "0", "1", "2", "3", "4", "5", "6", "7", "8", "9" >>

\* The i-th distributor of the brand page, with a phone number.
NamedDistributor(i) ==
    [ Dist1(Url1) EXCEPT !.name = << "d", NameTokens[i] >>, !.phone = SomeValue ]

\* The first n distributors of the page, in page order.
FirstDistributors(n) == [ i \in 1..n |-> NamedDistributor(i) ]

\* How a caller may write a distributor down: as parsed, without its phone
\* number, with its name in capitals and padded, under another name, or
\* without a name.
ProposalStyles == { "exact", "noPhone", "capitals", "otherName", "nameless" }

Proposed(d, style) ==
    CASE style = "exact"     -> d
      [] style = "noPhone"   -> [ d EXCEPT !.phone = EMPTY ]
      [] style = "capitals"  -> [ d EXCEPT !.name = << " ", "D", d.name[2], " " >> ]
      [] style = "otherName" -> [ d EXCEPT !.name = << "x", d.name[2] >> ]
      [] OTHER               -> [ d EXCEPT !.name = EMPTY ]

GroundTruthSizes == { 0, 1, 3, 10 }
ProposedSizes    == { 0, 1, 2, 4, 5, 10 }

ProposedDistributorLists ==
    { [ i \in 1..n |-> Proposed(NamedDistributor(i), style) ] :
        n \in ProposedSizes, style \in ProposalStyles }

DistributorScrapeResults ==
    { [ contactDetails     |-> [ NoContact EXCEPT !["phone"] = phone ],
        parsedDistributors |-> FirstDistributors(n),
        markdown           |-> EMPTY,
        metadata           |-> [ ogImage |-> EMPTY ],
        extractedImageUrls |-> NoImages ] :
        phone \in { EMPTY, SomeValue }, n \in GroundTruthSizes }

DistributorProposedRecords ==
    { [ architonicUrl  |-> Url1,
        phone          |-> phone,
        email          |-> SomeValue,
        street         |-> SomeValue,
        city           |-> SomeValue,
        postalCode     |-> SomeValue,
        latitude       |-> SomeValue,
        longitude      |-> SomeValue,
        website        |-> SomeValue,
        facebook       |-> SomeValue,
        instagram      |-> SomeValue,
        pinterest      |-> SomeValue,
        contactEmail   |-> SomeValue,
        description    |-> SomeValue,
        logoUrl        |-> EMPTY,
        headerImageUrl |-> EMPTY,
        aboutImageUrl  |-> EMPTY,
        distributors   |-> proposed,
        catalogs       |-> << >> ] :
        phone \in { EMPTY, SomeValue }, proposed \in ProposedDistributorLists }

DistributorCalls ==
    { [ pc |-> "called", scrapeResult |-> sr, brandData |-> bd, result |-> NoValidation ] :
        sr \in DistributorScrapeResults, bd \in DistributorProposedRecords }

\* An earlier scrape of the page has cached none, some or all of its distributors.
DistributorInit ==
    /\ NothingScrapedYet
    /\ \E n \in GroundTruthSizes :
         distributorCache = [ u \in URLs |-> IF u = Url1 THEN FirstDistributors(n) ELSE << >> ]
    /\ AuxInit
    /\ validateCall \in DistributorCalls

DistributorSpec == DistributorInit /\ [][ValidateNext]_vars

\* ---- C22

DistributorIssues(r) == { i \in 1..Len(r.issues) : r.issues[i].field = "distributors" }

\* The list checkDistributors reconciles against: the one passed in, the
\* cached one when none is passed in.
ReconciledAgainst(call) ==
    IF call.scrapeResult.parsedDistributors # << >>
    THEN call.scrapeResult.parsedDistributors
    ELSE getCachedDistributors(call.brandData.architonicUrl)

\* C22: for every ground-truth and proposed distributor list, every
\* distributor issue is a warning; errorCount and valid are the same whatever
\* distributor list is proposed; and a proposed list that is non-empty and
\* shorter than half the ground-truth list (4 of 10) gives the count-mismatch
\* warning, a list of at least half (5 of 10) does not.
C22_DistributorIssuesAreWarnings ==
    validateCall.pc = "returned"
    => LET r  == validateCall.result
           bd == validateCall.brandData
           gt == ReconciledAgainst(validateCall)
       IN  /\ \A i \in DistributorIssues(r) : r.issues[i].severity = "warning"
           /\ \A other \in ProposedDistributorLists :
                LET o == executeValidateBrandData(validateCall.scrapeResult,
                             [ bd EXCEPT !["distributors"] = other ],
                             getCachedDistributors(bd.architonicUrl))
                IN  o.errorCount = r.errorCount /\ o.valid = r.valid
           /\ (\E i \in DistributorIssues(r) : r.issues[i].kind = "count")
              <=> /\ Len(bd.distributors) > 0
                  /\ 2 * Len(bd.distributors) < Len(gt)

\* Ten distributors parsed, four of them proposed under their names: the
\* count-mismatch warning, no error, valid.
C22_Witness ==
    /\ validateCall.pc = "returned"
    /\ Len(validateCall.scrapeResult.parsedDistributors) = 10
    /\ validateCall.brandData.distributors = FirstDistributors(4)
    /\ \E i \in DistributorIssues(validateCall.result) :
         validateCall.result.issues[i].kind = "count"
    /\ validateCall.result.errorCount = 0
    /\ validateCall.result.valid

\* ---- C23

\* The richer of the live extraction list and the cached list, by count.
RicherOf(live, cached) == IF Len(cached) > Len(live) THEN cached ELSE live

\* C23: the issues of a validation are those of reconciling the proposed
\* record against whichever of the live extraction list and the list cached for
\* the source URL has more entries.
C23_AsStated ==
    validateCall.pc = "returned"
    => LET sr     == validateCall.scrapeResult
           cached == getCachedDistributors(validateCall.brandData.architonicUrl)
           richer == [ sr EXCEPT !.parsedDistributors = RicherOf(@, cached) ]
       IN  validateCall.result
             = executeValidateBrandData(richer, validateCall.brandData, cached)

\* ------------------------------------------- contact extraction from rawHtml

\* rawHtml is the sequence of the quoted strings of the hydration payload,
\* labels and values alike: a label is the one-element sequence of its name, a
\* value the sequence of its characters. The pages of the model carry the labels
\* phone, street, contactEmail, email, distributors and pinterest; the patterns
\* for zip, geoLocation, homepage and the social-media labels find nothing in them.
Label(name) == << name >>

\* The positions of label in source that are followed by another string.
LabelPositions(source, label) ==
    { i \in 1..(Len(source) - 1) : source[i] = Label(label) }

FirstOf(positions) == CHOOSE i \in positions : \A j \in positions : i <= j

\* block.match(/["\\]label["\\][,:"\\]+([^"\\]+)/): the string after the first label.
BlockValue(block, label) ==
    IF LabelPositions(block, label) = {} THEN EMPTY
    ELSE block[FirstOf(LabelPositions(block, label)) + 1]

\* extractLooseValue(source, keys): the decoded string after the first
\* occurrence of the first key that has one.
RECURSIVE extractLooseValue(_, _)
extractLooseValue(source, keys) ==
    IF keys = << >> THEN EMPTY
    ELSE IF Trim(BlockValue(source, Head(keys))) # EMPTY
         THEN Trim(BlockValue(source, Head(keys)))
         ELSE extractLooseValue(source, Tail(keys))

\* /@/.test(email)
ContainsAt(value) == IndexOf(value, "@") # -1

extractContactFromLoosePatterns(source, contact) ==
    LET phone == extractLooseValue(source, << "phone" >>)
        email == extractLooseValue(source, << "contactEmail", "email" >>)
        street == extractLooseValue(source, << "street" >>)
    IN  [ contact EXCEPT
            !["phone"]  = IF @ = EMPTY THEN phone ELSE @,
            !["email"]  = IF @ = EMPTY /\ email # EMPTY /\ ContainsAt(email)
                          THEN email ELSE @,
            !["street"] = IF @ = EMPTY THEN street ELSE @ ]

extractFromBlock(block, contact) ==
    LET phoneMatch == BlockValue(block, "phone")
        emailMatch == BlockValue(block, "contactEmail")
        fromBlock ==
            [ contact EXCEPT
                !["phone"] = IF phoneMatch # EMPTY THEN phoneMatch ELSE @,
                !["email"] = IF emailMatch # EMPTY /\ isPlausibleEmail(emailMatch)
                             THEN emailMatch ELSE @ ]
    IN  extractContactFromLoosePatterns(block, fromBlock)

hasAnyContactField(contact) ==
    \E field \in { "street", "city", "zip", "phone", "email", "website", "facebook",
                   "instagram", "pinterest", "lat", "lng" } :
        Trim(contact[field]) # EMPTY

\* The window around the first marker, in strings (1800 and 5500 characters in
\* the source).
LIKELY_REGION_BEFORE == 1
LIKELY_REGION_AFTER == 4

extractLikelyContactRegion(rawHtml) ==
    LET markers == { i \in 1..Len(rawHtml) :
                       rawHtml[i] \in { Label("contactEmail"), Label("phone"), Label("street") } }
    IN  IF markers = {} THEN rawHtml
        ELSE LET firstIdx == FirstOf(markers)
                 start == IF firstIdx - LIKELY_REGION_BEFORE < 1 THEN 1
                          ELSE firstIdx - LIKELY_REGION_BEFORE
                 end   == IF firstIdx + LIKELY_REGION_AFTER > Len(rawHtml) THEN Len(rawHtml)
                          ELSE firstIdx + LIKELY_REGION_AFTER
             IN  SubSeq(rawHtml, start, end)

\* The first positions from which "phone", a value, "street" ... "distributors"
\* (the primary block), "street" ... "distributors" (the fallback block) and
\* "street" ... "pinterest" (the short block) match.
PrimaryStarts(rawHtml) ==
    { i \in 1..(Len(rawHtml) - 3) :
        /\ rawHtml[i] = Label("phone")
        /\ rawHtml[i + 2] = Label("street")
        /\ \E k \in (i + 3)..Len(rawHtml) : rawHtml[k] = Label("distributors") }

BlockStarts(rawHtml, closing) ==
    { j \in 1..(Len(rawHtml) - 1) :
        /\ rawHtml[j] = Label("street")
        /\ \E k \in (j + 1)..Len(rawHtml) : rawHtml[k] = Label(closing) }

\* The strings from start up to the first closing label after position after.
BlockFrom(rawHtml, start, after, closing) ==
    SubSeq(rawHtml, start,
           FirstOf({ k \in (after + 1)..Len(rawHtml) : rawHtml[k] = Label(closing) }))

extractContactFromHtml(rawHtml) ==
    IF PrimaryStarts(rawHtml) # {}
    THEN LET i == FirstOf(PrimaryStarts(rawHtml))
         IN  extractContactFromLoosePatterns(extractLikelyContactRegion(rawHtml),
                 extractFromBlock(BlockFrom(rawHtml, i, i + 2, "distributors"), NoContact))
    ELSE IF BlockStarts(rawHtml, "distributors") # {}
    THEN LET j == FirstOf(BlockStarts(rawHtml, "distributors"))
             contact == extractFromBlock(BlockFrom(rawHtml, j, j, "distributors"), NoContact)
         IN  IF ~hasAnyContactField(contact)
             THEN extractContactFromLoosePatterns(extractLikelyContactRegion(rawHtml), contact)
             ELSE contact
    ELSE LET fromShort ==
                 IF BlockStarts(rawHtml, "pinterest") # {}
                 THEN LET j == FirstOf(BlockStarts(rawHtml, "pinterest"))
                      IN  extractFromBlock(BlockFrom(rawHtml, j, j, "pinterest"), NoContact)
                 ELSE NoContact
             likelyRegion == extractLikelyContactRegion(rawHtml)
             contact == extractContactFromLoosePatterns(likelyRegion, fromShort)
         IN  IF ~hasAnyContactField(contact) /\ likelyRegion # rawHtml
             THEN extractContactFromLoosePatterns(rawHtml, contact)
             ELSE contact

\* Email values a page may carry: plausible; no dot in the domain; nothing
\* before the @; the dot last.
EmailNothingBeforeAt == << "@", "b", ".", "c" >>
EmailDotLast         == << "a", "@", "b", "." >>
PageEmails == { EmailPlausible, EmailLoose, EmailNothingBeforeAt, EmailDotLast }

\* The pages of the model: an optional phone part, an optional street part,
\* an email part under contactEmail or email or both, before or after the
\* street, filler strings, and a closing distributors or pinterest label or none.
PhoneParts  == { << >>, << Label("phone"), << "1" >> >>, << Label("phone") >> }
StreetParts == { << >>, << Label("street"), << "s" >> >> }
EmailParts  ==
    { << >>, << Label("contactEmail") >> }
    \cup { << Label("contactEmail"), e >> : e \in PageEmails }
    \cup { << Label("email"), e >> : e \in PageEmails }
    \cup { << Label("contactEmail"), Label("email"), e >> : e \in PageEmails }
Fillers     == { << >>, << << "f" >>, << "f" >>, << "f" >>, << "f" >> >> }
Closings    == { << >>, << Label("distributors") >>, << Label("pinterest") >> }

Pages ==
    { ph \o st \o fi \o em \o cl :
        ph \in PhoneParts, st \in StreetParts, fi \in Fillers, em \in EmailParts,
        cl \in Closings }
    \cup { ph \o em \o fi \o st \o cl :
        ph \in PhoneParts, st \in StreetParts, fi \in Fillers, em \in EmailParts,
        cl \in Closings }

\* executeScrapeBrand(url) for a fetch that returns rawHtml and nothing else.
ScrapePage(url, rawHtml) ==
    ScrapeBrand(url,
        [ Extraction(url, EMPTY, EMPTY, FALSE) EXCEPT
            !.contactDetails = extractContactFromHtml(rawHtml) ])

ContactNext == \E url \in URLs, rawHtml \in Pages : ScrapePage(url, rawHtml)

ContactSpec == Init /\ [][ContactNext]_vars

\* ---- C24

\* C24: the email of the contact details of every scrape session satisfies
\* isPlausibleEmail, whichever of the primary block, the fallback block and the
\* loose key scan produced it.
C24_AsStated ==
    \A i \in 1..Len(brandScrapeSessionCache) :
        LET email == brandScrapeSessionCache[i].contactDetails["email"]
        IN  email # EMPTY => isPlausibleEmail(email)

\* --------------------------------------- catalog links from the fetch's links

\* A link is the sequence of the segments that follow a "/" in it, the host
\* first; a segment is a sequence of pieces, a keyword or the ".pdf" suffix a
\* piece of its own.
LowerWord(w) ==
    CASE w = "Catalog"  -> "catalog"
      [] w = "Download" -> "download"
      [] OTHER          -> w

\* /\/(catalog|download|pdf|brochure)/i.test(link)
MatchesCatalogPattern(link) ==
    \E i \in 1..Len(link) :
        link[i] # << >>
        /\ LowerWord(link[i][1]) \in { "catalog", "download", "pdf", "brochure" }

\* link.endsWith('.pdf')
EndsWithPdf(link) ==
    /\ link # << >>
    /\ link[Len(link)] # << >>
    /\ link[Len(link)][Len(link[Len(link)])] = ".pdf"

\* (result.links || []).filter(...).map(link => ({ url: link, filename: link.split('/').pop() }))
RECURSIVE parseCatalogLinks(_)
parseCatalogLinks(links) ==
    IF links = << >> THEN << >>
    ELSE (IF MatchesCatalogPattern(Head(links)) \/ EndsWithPdf(Head(links))
          THEN << [ url |-> Head(links), filename |-> Head(links)[Len(Head(links))] ] >>
          ELSE << >>)
         \o parseCatalogLinks(Tail(links))

LinkCatalogPdf   == << << "host" >>, << "catalog", "ue" >>, << "x", ".pdf" >> >>
LinkPdfOnly      == << << "host" >>, << "files" >>, << "y", ".pdf" >> >>
LinkDownloadCaps == << << "host" >>, << "Download" >>, << "z" >> >>
LinkAbout        == << << "host" >>, << "about" >> >>
PageLinks == { LinkCatalogPdf, LinkPdfOnly, LinkDownloadCaps, LinkAbout }

MaxLinks == 3

\* The link lists a fetch may return: up to MaxLinks links, repeats included.
FetchedLinkLists ==
    UNION { [ 1..n -> PageLinks ] : n \in 0..MaxLinks }

\* executeScrapeBrand(url) for a fetch that returns the link list links.
ScrapeLinks(url, links) ==
    ScrapeBrand(url,
        [ Extraction(url, EmailPlausible, Website, FALSE) EXCEPT
            !.links = links,
            !.parsedCatalogLinks = parseCatalogLinks(links) ])

LinkNext == \E url \in URLs, links \in FetchedLinkLists : ScrapeLinks(url, links)

LinkSpec == Init /\ [][LinkNext]_vars

\* ---- C25

\* C25: the catalog-link list of every scrape session has no two entries with
\* the same url, even when the fetch's link list repeats a matching link.
C25_AsStated ==
    \A i \in 1..Len(brandScrapeSessionCache) :
        LET parsed == brandScrapeSessionCache[i].parsedCatalogLinks
        IN  \A j, k \in 1..Len(parsed) : j # k => parsed[j].url # parsed[k].url

\* ---- C26

\* The step sends matterbase_create_brand to the Matterbase client.
CreateCallSent ==
    /\ Len(matterbaseCalls') = Len(matterbaseCalls) + 1
    /\ matterbaseCalls'[Len(matterbaseCalls')].tool = "matterbase_create_brand"

\* The step is a return of the creation call from before the create request.
ReturnsBeforeCreate ==
    /\ mbCreate.pc \in { "idle", "awaitCountry" }
    /\ mbCreate'.pc = "done"

PayloadFieldsRequired ==
    { "name", "companyName", "productType", "countryCode", "website", "contactEmail" }

\* C26: matterbase_create_brand is sent only for a call that found the payload
\* saved for its record id, with name, companyName, productType, countryCode,
\* website and contactEmail present and the country name present or found by
\* the lookup; a call that returns before the create request has sent none and
\* returns MISSING_SAVED_NOTION_SOURCE exactly when there is no payload,
\* INCOMPLETE_SAVED_NOTION_SOURCE only when one of the seven is missing, and
\* otherwise MATTERBASE_CREATE_BRAND_FAILED, the country lookup having thrown.
C26_CreateOnlyForCompletePayload ==
    [][ /\ CreateCallSent
           => /\ mbCreate.pc = "awaitCountry"
              /\ mbCreate.payload # NoPayload
              /\ mbCreate.payload.notionPageId = mbCreate.notionPageId
              /\ \A f \in PayloadFieldsRequired : mbCreate.payload[f] # EMPTY
              /\ mbCreate'.countryName # EMPTY
        /\ ReturnsBeforeCreate
           => /\ ~CreateCallSent
              /\ mbCreate'.code \in { "MISSING_SAVED_NOTION_SOURCE",
                                      "INCOMPLETE_SAVED_NOTION_SOURCE",
                                      "MATTERBASE_CREATE_BRAND_FAILED" }
              /\ mbCreate'.code = "MISSING_SAVED_NOTION_SOURCE"
                 <=> mbCreate'.payload = NoPayload
              /\ mbCreate'.code = "INCOMPLETE_SAVED_NOTION_SOURCE"
                 => \/ mbCreate'.countryName = EMPTY
                    \/ \E f \in PayloadFieldsRequired : mbCreate'.payload[f] = EMPTY
              /\ mbCreate'.code = "MATTERBASE_CREATE_BRAND_FAILED"
                 => mbCreate.lookup ]_vars

\* A creation call for a payload saved without country name, whose country
\* code the country list does not have, has returned
\* INCOMPLETE_SAVED_NOTION_SOURCE; only the country list was requested.
C26_Witness ==
    /\ mbCreate.pc = "done"
    /\ mbCreate.code = "INCOMPLETE_SAVED_NOTION_SOURCE"
    /\ mbCreate.payload # NoPayload
    /\ mbCreate.payload.countryCode # EMPTY
    /\ mbCreate.countryName = EMPTY
    /\ matterbaseCalls = << ToolCall("matterbase_list_countries", mbCreate.notionPageId) >>

\* C26 as stated: a call that does not reach the create request returns
\* MISSING_SAVED_NOTION_SOURCE or INCOMPLETE_SAVED_NOTION_SOURCE.
C26_AsStated ==
    [][ ReturnsBeforeCreate
        => mbCreate'.code \in { "MISSING_SAVED_NOTION_SOURCE",
                                "INCOMPLETE_SAVED_NOTION_SOURCE" } ]_vars

\* The link-state check of update_brand_index_status returns in this step.
LinkStateChecked == indexCall.pc = "awaitLinkState" /\ indexCall'.pc # "awaitLinkState"

\* A non-archived Brands page with the Architonic ID has a non-empty Matterbase ID.
SomeBrandsPageLinked(architonicId) ==
    \E i \in BrandsPagesWith(notionPages, architonicId) :
        MatterbaseIdOfPage(matterbaseIdUpdates, i) # EMPTY

\* An index entry's status becomes "scraped" in this step.
EntrySetToScraped(i) ==
    /\ brandIndex[i].status # "scraped"
    /\ brandIndex'[i].status = "scraped"

\* The checklist of matterbase_create_brand allows marking only after a create
\* call that passed its entry checks, succeeded, resolved an id and wrote that
\* id to the call's page.
ChecklistAllowsOnlyWhenLinked ==
    (mbCreate.pc = "done" /\ mbCreate.checklist.canMarkIndexScraped)
        => /\ mbCreate.checklist.createSucceeded
           /\ mbCreate.checklist.matterbaseIdResolved
           /\ mbCreate.checklist.notionMatterbaseIdLinked
           /\ mbCreate.matterbaseId # EMPTY
           /\ mbCreate.code = "CREATED"
           /\ MatterbaseIdOfPage(matterbaseIdUpdates, mbCreate.notionPageId)
                = mbCreate.matterbaseId

\* C27: update_brand_index_status sets an index entry to "scraped" only from a
\* call whose check found a Brands page with the Architonic ID and a non-empty
\* Matterbase ID; a check that finds none returns
\* SCRAPED_STATUS_REQUIRES_MATTERBASE_ID, a check that throws returns a failure
\* without a code, and neither touches the index; matterbase_create_brand
\* reports canMarkIndexScraped only when the create succeeded, the id was
\* resolved and the Notion link update succeeded.
C27_ScrapedOnlyWhenLinked ==
    [][ /\ LinkStateChecked =>
             /\ brandIndex' = brandIndex
             /\ \/ /\ indexCall'.pc = "awaitIndexQuery"
                   /\ SomeBrandsPageLinked(indexCall.architonicId)
                   /\ indexCall'.linkState.linked
                \/ /\ indexCall'.pc = "done"
                   /\ ~indexCall'.success
                   /\ indexCall'.code \in { "SCRAPED_STATUS_REQUIRES_MATTERBASE_ID", "" }
                   /\ (indexCall'.code = "") =>
                        (indexCall'.linkState = NotLinked)
        /\ \A i \in 1..Len(brandIndex) :
             EntrySetToScraped(i) =>
                 /\ indexCall.pc = "awaitPatch"
                 /\ indexCall.status = "scraped"
                 /\ indexCall.linkState.linked
                 /\ indexCall.linkState.matterbaseId # EMPTY
                 /\ brandIndex[i].architonicId = indexCall.architonicId
        /\ ChecklistAllowsOnlyWhenLinked' ]_vars

\* An entry has been set to "scraped" by a call that has returned success, and
\* the create call before it reported canMarkIndexScraped.
C27_Witness ==
    /\ indexCall.pc = "done"
    /\ indexCall.status = "scraped"
    /\ indexCall.success
    /\ IndexHas(indexCall.architonicId, "scraped")
    /\ mbCreate.pc = "done"
    /\ mbCreate.checklist.canMarkIndexScraped

\* C27 as stated: a check that does not let the call go on always returns
\* SCRAPED_STATUS_REQUIRES_MATTERBASE_ID.
C27_AsStated ==
    [][ LinkStateChecked =>
          \/ /\ indexCall'.pc = "awaitIndexQuery"
             /\ SomeBrandsPageLinked(indexCall.architonicId)
          \/ /\ indexCall'.pc = "done"
             /\ indexCall'.code = "SCRAPED_STATUS_REQUIRES_MATTERBASE_ID"
             /\ brandIndex' = brandIndex ]_vars

\* C28: after any sequence of add_brands_to_index calls, interleaved calls and
\* batches that repeat an id included, the index holds at most one entry per
\* Architonic ID and every entry has status pending.
C28_AsStated ==
    /\ \A id \in ArchitonicIds : Cardinality(IndexPositions(brandIndex, id)) <= 1
    /\ \A i \in 1..Len(brandIndex) : brandIndex[i].status = "pending"

\* Every handleToolUse/handleThinking call has resolved.
HandlersResolved == \A p \in StatusCallers : handler[p].pc = "idle"

\* The messages sent whose delete was never requested.
NeverDeleted ==
    { m \in 1..sentMessages :
        \A i \in 1..Len(deleteRequests) : deleteRequests[i].messageId # m }

\* C29: once cleanupStatusMessage has completed and every handler call has
\* resolved, a delete has been requested for every status message sent and no
\* debounce timer is pending.
C29_AsStated ==
    (cleanup.pc = "done" /\ HandlersResolved)
        => /\ NeverDeleted = {}
           /\ statusState.debounceTimer = NULL

\* The text of the last handler call is deferred: it is the pending text, the
\* timer is set and due within the time modelled, no immediate edit is in
\* flight and no cleanup has started; n editMessage calls have been issued.
Deferred(n) ==
    /\ statusState.pendingText # << >>
    /\ statusState.pendingText = formatStatusText(statusState)
    /\ statusState.debounceTimer # NULL
    /\ statusState.debounceTimer <= MaxStatusTime
    /\ \A p \in StatusCallers : handler[p].pc # "awaitEdit"
    /\ cleanup.pc = "idle"
    /\ Len(editCalls) = n

EditsSpaced ==
    \A i \in 1..(Len(editCalls) - 1) :
        editCalls[i + 1].at - editCalls[i].at >= MIN_EDIT_INTERVAL

\* C30: any two consecutive editMessage calls are at least MIN_EDIT_INTERVAL
\* apart, and after a text is deferred an editMessage call is eventually
\* issued (by the timer, or by a handler's immediate edit) unless a cleanup
\* starts.
C30_AsStated ==
    /\ []EditsSpaced
    /\ \A n \in 0..(2 * MaxStatusCalls) :
         Deferred(n) ~> (Len(editCalls) > n \/ cleanup.pc # "idle")

====
